---- MODULE Spec2Model ----
(***************************************************************************)
(* Verification model of city-eye-map-24.                                  *)
(*                                                                         *)
(* Part 1, proximity engine (src/src/utils/distance.ts, used by            *)
(* src/src/pages/Index.tsx): calculateDistance and                         *)
(* getWarehousesWithinRadius.                                              *)
(* Part 2, schema mapper (src/unnamed/part_013, the DataMapper component): *)
(* mapWarehouseCityToWarehouse, analyzeSampleData and the input area.      *)
(* Part 3, the location hook (src/src/hooks/useGeolocation.ts), the        *)
(* proximity alert of Index and the request log of DataExplorer            *)
(* (src/src/components/DataExplorer.tsx).                                  *)
(*                                                                         *)
(* Numbers.  JavaScript numbers are doubles; the proximity model computes  *)
(* the Haversine formula in decimal fixed point (Scale = 10000) with       *)
(* coordinates in whole degrees on a 10-degree grid.  Every arithmetic     *)
(* step of the source has its fixed-point counterpart (Mul, Sqrt, Sin,     *)
(* Cos, Atan2), each rounding to nearest as IEEE-754 does.  The distance   *)
(* is an integer number of miles.                                          *)
(***************************************************************************)
EXTENDS Integers, Sequences, FiniteSets, Bags, TLC

VARIABLES
  warehouseData,           \* the base facility list handed to the engine
  userLocation,            \* the reference point of Index
  warehousesWithDistance,  \* Index state: result of the radius-10 query
  nearbyWarehouses,        \* Index state: result of the radius-2 query
  lastQuery,               \* arguments and result of the last engine call
  sampleData,              \* DataMapper: the text of the input area
  mappingResults,          \* DataMapper: the MappingResults of the last analysis
  loading,                 \* DataMapper: an analysis is running
  toast,                   \* DataMapper: the last notification shown
  state,                   \* useGeolocation: the GeolocationState of the hook
  geolocation,             \* whether the browser has navigator.geolocation
  watchId,                 \* useGeolocation: the position watch of the effect
  lastCallback,            \* history: the latest callback of the position watch
  mounted,                 \* Index: the mount effects have run
  mapLoaded,               \* Index state: the map called onMapLoad
  hasSeenProximityAlert,   \* Index state: the user closed the alert
  showProximityAlert,      \* Index state: the alert is visible
  timers,                  \* Index: pending one-second timers of the alert effect
  responses,               \* DataExplorer state: the entries shown, newest first
  explorerLoading,         \* DataExplorer state: its loading flag
  customUrl,               \* DataExplorer state: the text of the URL field
  inFlight,                \* DataExplorer: makeRequest calls awaiting their fetch
  delays                   \* DataExplorer: exploreKnownEndpoints loops in their pause

hookVars == <<state, geolocation, watchId, lastCallback>>
alertVars == <<mounted, mapLoaded, hasSeenProximityAlert, showProximityAlert, timers>>
explorerVars == <<responses, explorerLoading, customUrl, inFlight, delays>>

vars == <<warehouseData, userLocation, warehousesWithDistance,
          nearbyWarehouses, lastQuery, sampleData, mappingResults, loading, toast,
          hookVars, alertVars, explorerVars>>

proxVars == <<warehouseData, userLocation, warehousesWithDistance,
              nearbyWarehouses, lastQuery>>
mapperVars == <<sampleData, mappingResults, loading, toast>>

(***************************************************************************)
(* Bounds                                                                  *)
(***************************************************************************)
MaxWarehouses == 3

\* the largest number of properties of a source record
MaxFields == 2

\* the largest number of elements of a pasted array
MaxBatch == 2
MaxCalls == 2
MaxResponses == 2

(***************************************************************************)
(* Fixed-point arithmetic                                                  *)
(***************************************************************************)
Scale == 10000

Abs(x) == IF x < 0 THEN -x ELSE x

Sgn(x) == IF x < 0 THEN -1 ELSE 1

\* x * y of two fixed-point numbers, rounded to nearest, sign-symmetric
Mul(x, y) == Sgn(x) * Sgn(y) * ((Abs(x) * Abs(y) + Scale \div 2) \div Scale)

\* Math.sin on [0, 90] degrees in steps of 5 degrees, times Scale
SinTable ==
  <<0, 872, 1736, 2588, 3420, 4226, 5000, 5736, 6428, 7071,
    7660, 8192, 8660, 9063, 9397, 9659, 9848, 9962, 10000>>

\* Math.sin of an angle given in degrees (a multiple of 5)
Sin(deg) ==
  LET m == deg % 360
      q == IF m <= 90 THEN m
           ELSE IF m <= 180 THEN 180 - m
           ELSE IF m <= 270 THEN m - 180
           ELSE 360 - m
      s == SinTable[(q \div 5) + 1]
  IN IF m <= 180 THEN s ELSE -s

\* Math.cos of an angle given in degrees (a multiple of 5)
Cos(deg) == Sin(deg + 90)

\* integer square root by bisection: the r in lo..hi with r*r <= n < (r+1)*(r+1)
RECURSIVE ISqrt(_, _, _)
ISqrt(n, lo, hi) ==
  IF lo >= hi THEN lo
  ELSE LET mid == (lo + hi + 1) \div 2
       IN IF mid * mid <= n THEN ISqrt(n, mid, hi) ELSE ISqrt(n, lo, mid - 1)

\* Math.sqrt of a fixed-point number in [0, 1]
Sqrt(x) == ISqrt(x * Scale, 0, Scale)

\* Math.atan2(y, x) for y, x >= 0, in degrees: the multiple of 5 degrees in
\* [0, 90] whose direction is nearest to (x, y), found by scanning upwards
\* from t while the next angle is strictly nearer
RECURSIVE Atan2Scan(_, _, _)
Atan2Scan(y, x, t) ==
  IF t = 90 THEN t
  ELSE IF Abs(Sin(t + 5) * x - Cos(t + 5) * y) < Abs(Sin(t) * x - Cos(t) * y)
       THEN Atan2Scan(y, x, t + 5)
       ELSE t

Atan2(y, x) == Atan2Scan(y, x, 0)

(***************************************************************************)
(* src/src/utils/distance.ts                                               *)
(***************************************************************************)
\* Earth's radius in miles
R == 3959

\* the formula with the cosine of lon2 in the place of the cosine of lat2
HaversineCosOfLon(lat1, lon1, lat2, lon2) ==
  LET dLat == lat2 - lat1
      dLon == lon2 - lon1
      a == Mul(Sin(dLat \div 2), Sin(dLat \div 2))
           + Mul(Mul(Mul(Cos(lat1), Cos(lon2)), Sin(dLon \div 2)),
                 Sin(dLon \div 2))
      c == 2 * Atan2(Sqrt(Abs(a)), Sqrt(Abs(Scale - a)))
  IN (R * c * 355 + (113 * 180) \div 2) \div (113 * 180)

\* the body of calculateDistance: Haversine formula, result in miles
Haversine(lat1, lon1, lat2, lon2) ==
  LET dLat == lat2 - lat1
      dLon == lon2 - lon1
      a == Mul(Sin(dLat \div 2), Sin(dLat \div 2))
           + Mul(Mul(Mul(Cos(lat1), Cos(lat2)), Sin(dLon \div 2)),
                 Sin(dLon \div 2))
      c == 2 * Atan2(Sqrt(a), Sqrt(Scale - a))
  IN \* R * c with c converted from degrees to radians (pi = 355/113)
     (R * c * 355 + (113 * 180) \div 2) \div (113 * 180)

\* src/src/data/warehouses.ts defaultUserLocation (33.8303, -117.3289), on
\* the 10-degree grid
defaultUserLocation == [latitude |-> 30, longitude |-> -120]

\* reference points and facility positions
Points ==
  { defaultUserLocation,
    [latitude |-> 30,  longitude |-> -110],
    [latitude |-> 30,  longitude |-> -130],
    [latitude |-> -30, longitude |-> 60] }

\* NaN, the value of every arithmetic operation on a coordinate that is NaN
\* or infinite
NaN == -999999

\* a position with a latitude outside [-90, 90] and a position with a
\* latitude that is not a number
InvalidPoints ==
  { [latitude |-> 100, longitude |-> -120],
    [latitude |-> NaN, longitude |-> -120] }

\* Haversine tabulated once over the coordinates of the points
HaversineTable ==
  [q \in {<<p1.latitude, p1.longitude, p2.latitude, p2.longitude>> :
            p1 \in (Points \cup InvalidPoints) \ {p \in InvalidPoints : p.latitude = NaN},
            p2 \in (Points \cup InvalidPoints) \ {p \in InvalidPoints : p.latitude = NaN}}
     |-> Haversine(q[1], q[2], q[3], q[4])]

\* the function checks none of its arguments: NaN propagates through the
\* arithmetic, every other number is computed with
calculateDistance(lat1, lon1, lat2, lon2) ==
  IF NaN \in {lat1, lon1, lat2, lon2} THEN NaN
  ELSE HaversineTable[<<lat1, lon1, lat2, lon2>>]

\* a <= b of two numbers: false when one of them is NaN
LessOrEqual(a, b) == a # NaN /\ b # NaN /\ a <= b

\* the value of a property that an object does not have
undefined == -1

\* variant of Annotate: { distanceFromUser: calculateDistance(...), ...warehouse },
\* where a distanceFromUser the warehouse already has wins
AnnotateKeepExisting(userLat, userLon, warehouse) ==
  IF warehouse.distanceFromUser # undefined THEN warehouse
  ELSE [warehouse EXCEPT !.distanceFromUser =
          calculateDistance(userLat, userLon, warehouse.latitude, warehouse.longitude)]

\* { ...warehouse, distanceFromUser: calculateDistance(...) }: a new object
\* with the properties of warehouse, distanceFromUser set last
Annotate(userLat, userLon, warehouse) ==
  [warehouse EXCEPT !.distanceFromUser =
     calculateDistance(userLat, userLon, warehouse.latitude, warehouse.longitude)]

\* variant of MapCallback: warehouse.distanceFromUser = ...; return warehouse
MapCallbackInPlace(userLat, userLon, warehouse) ==
  [returned |-> Annotate(userLat, userLon, warehouse),
   element  |-> Annotate(userLat, userLon, warehouse)]

\* one invocation of the map callback: the object it returns, and the element
\* of the receiver array after the invocation (the callback only reads it)
MapCallback(userLat, userLon, warehouse) ==
  [returned |-> Annotate(userLat, userLon, warehouse),
   element  |-> warehouse]

\* Array.prototype.map: the new array
RECURSIVE MapReturned(_, _, _)
MapReturned(userLat, userLon, ws) ==
  IF ws = <<>> THEN <<>>
  ELSE <<MapCallback(userLat, userLon, Head(ws)).returned>>
       \o MapReturned(userLat, userLon, Tail(ws))

\* Array.prototype.map: the receiver array after the call
RECURSIVE MapReceiver(_, _, _)
MapReceiver(userLat, userLon, ws) ==
  IF ws = <<>> THEN <<>>
  ELSE <<MapCallback(userLat, userLon, Head(ws)).element>>
       \o MapReceiver(userLat, userLon, Tail(ws))

\* variant of FilterWithin: comparison inverted (>=)
RECURSIVE FilterBeyond(_, _)
FilterBeyond(ws, radiusMiles) ==
  IF ws = <<>> THEN <<>>
  ELSE (IF Head(ws).distanceFromUser >= radiusMiles THEN <<Head(ws)>> ELSE <<>>)
       \o FilterBeyond(Tail(ws), radiusMiles)

\* variant of FilterWithin: strict comparison (<)
RECURSIVE FilterStrictlyWithin(_, _)
FilterStrictlyWithin(ws, radiusMiles) ==
  IF ws = <<>> THEN <<>>
  ELSE (IF Head(ws).distanceFromUser < radiusMiles THEN <<Head(ws)>> ELSE <<>>)
       \o FilterStrictlyWithin(Tail(ws), radiusMiles)

\* Array.prototype.filter(warehouse => warehouse.distanceFromUser <= radiusMiles)
RECURSIVE FilterWithin(_, _)
FilterWithin(ws, radiusMiles) ==
  IF ws = <<>> THEN <<>>
  ELSE (IF LessOrEqual(Head(ws).distanceFromUser, radiusMiles)
        THEN <<Head(ws)>> ELSE <<>>)
       \o FilterWithin(Tail(ws), radiusMiles)

\* variant of Insert: comparator b.distanceFromUser - a.distanceFromUser
RECURSIVE InsertDescending(_, _)
InsertDescending(sorted, w) ==
  IF sorted = <<>> THEN <<w>>
  ELSE IF w.distanceFromUser - Head(sorted).distanceFromUser <= 0
       THEN <<Head(sorted)>> \o InsertDescending(Tail(sorted), w)
       ELSE <<w>> \o sorted

\* variant of Insert: w goes in front of the elements it ties with
RECURSIVE InsertBeforeEqual(_, _)
InsertBeforeEqual(sorted, w) ==
  IF sorted = <<>> THEN <<w>>
  ELSE IF Head(sorted).distanceFromUser - w.distanceFromUser < 0
       THEN <<Head(sorted)>> \o InsertBeforeEqual(Tail(sorted), w)
       ELSE <<w>> \o sorted

\* insertion of w into a sorted sequence, behind every element that does not
\* compare greater (comparator a.distanceFromUser - b.distanceFromUser)
RECURSIVE Insert(_, _)
Insert(sorted, w) ==
  IF sorted = <<>> THEN <<w>>
  ELSE IF Head(sorted).distanceFromUser - w.distanceFromUser <= 0
       THEN <<Head(sorted)>> \o Insert(Tail(sorted), w)
       ELSE <<w>> \o sorted

\* Array.prototype.sort((a, b) => a.distanceFromUser - b.distanceFromUser),
\* a stable sort
RECURSIVE SortByDistance(_)
SortByDistance(ws) ==
  IF ws = <<>> THEN <<>>
  ELSE Insert(SortByDistance(SubSeq(ws, 1, Len(ws) - 1)), ws[Len(ws)])

\* the value getWarehousesWithinRadius returns
getWarehousesWithinRadius(userLat, userLon, warehouses, radiusMiles) ==
  SortByDistance(
    FilterWithin(MapReturned(userLat, userLon, warehouses), radiusMiles))

\* whether getWarehousesWithinRadius ends by throwing: neither it nor
\* calculateDistance has a check of its arguments or a throw statement, and
\* the arithmetic, map, filter and sort do not throw on numbers
getWarehousesWithinRadiusThrows(userLat, userLon, warehouses, radiusMiles) == FALSE

\* the argument array after getWarehousesWithinRadius returned: filter and sort
\* work on the array map created
WarehousesAfterCall(userLat, userLon, warehouses) ==
  MapReceiver(userLat, userLon, warehouses)

(***************************************************************************)
(* Inputs of the proximity engine                                          *)
(***************************************************************************)
\* radii: 0, the call-site constants 2 and 10, and radii on and between the
\* distances of the grid
Radii == {0, 2, 10, 691, 12438}

\* a Warehouse record as listed in warehouseData: no distanceFromUser yet
Facility(i, p) ==
  [id |-> i, latitude |-> p.latitude, longitude |-> p.longitude,
   distanceFromUser |-> undefined]

BaseLists ==
  UNION { { [i \in 1..n |-> Facility(i, ps[i])] : ps \in [1..n -> Points] }
          : n \in 0..MaxWarehouses }

\* DataMapper state at mount: no results, an empty input area, no
\* notification.  A text is known by what trim() and JSON.parse make of it:
\* blank, malformed, or the JSON value it parses to.
NoRecord == <<>>

BlankText ==
  [kind |-> "blank",
   parsed |-> [kind |-> "primitive", props |-> <<>>, elements |-> <<>>,
               value |-> [type |-> "undefined", num |-> 0, str |-> <<>>]]]

NoToast ==
  [title |-> "", description |-> [template |-> "", args |-> <<>>], variant |-> ""]

\* useGeolocation at mount: no location yet, loading, no watch started
NoLocation == [type |-> "null"]
NoError == [type |-> "null"]
NoCallback ==
  [kind |-> "none",
   position |-> [coords |-> [latitude |-> 0, longitude |-> 0]],
   error |-> [code |-> 0, message |-> [type |-> "string", value |-> ""], PERMISSION_DENIED |-> 1]]

GeolocationState(location, isLoading, error, permissionDenied) ==
  [location |-> location, loading |-> isLoading, error |-> error,
   permissionDenied |-> permissionDenied]

useGeolocationInit ==
  /\ state = GeolocationState(NoLocation, TRUE, NoError, FALSE)
  /\ geolocation = TRUE
  /\ watchId = "none"
  /\ lastCallback = NoCallback

\* the alert state of Index at construction
IndexAlertInit ==
  /\ mounted = FALSE
  /\ mapLoaded = FALSE
  /\ hasSeenProximityAlert = FALSE
  /\ showProximityAlert = FALSE
  /\ timers = 0

\* DataExplorer at construction: no entries, not loading, an empty URL field
DataExplorerInit ==
  /\ responses = <<>>
  /\ explorerLoading = FALSE
  /\ customUrl = <<>>
  /\ inFlight = EmptyBag
  /\ delays = EmptyBag

(***************************************************************************)
(* src/src/pages/Index.tsx                                                 *)
(***************************************************************************)
Init ==
  /\ warehouseData \in BaseLists
  /\ userLocation = defaultUserLocation
  /\ warehousesWithDistance = <<>>
  /\ nearbyWarehouses = <<>>
  /\ lastQuery = [userLat |-> defaultUserLocation.latitude,
                  userLon |-> defaultUserLocation.longitude,
                  warehouses |-> <<>>, radiusMiles |-> 2, result |-> <<>>]
  /\ sampleData = BlankText
  /\ mappingResults = NoRecord
  /\ loading = FALSE
  /\ toast = NoToast
  /\ useGeolocationInit
  /\ IndexAlertInit
  /\ DataExplorerInit

\* the effect of Index: the radius-10 query and then the radius-2 query on
\* warehouseData, stored in the component state
EffectResult(loc) ==
  LET afterWide == WarehousesAfterCall(loc.latitude, loc.longitude, warehouseData)
  IN [warehousesWithDist |->
        getWarehousesWithinRadius(loc.latitude, loc.longitude, warehouseData, 10),
      nearby |->
        getWarehousesWithinRadius(loc.latitude, loc.longitude, afterWide, 2),
      warehouseData |->
        WarehousesAfterCall(loc.latitude, loc.longitude, afterWide)]

\* useEffect of Index running for the current userLocation
IndexEffect ==
  LET e == EffectResult(userLocation)
  IN /\ warehousesWithDistance' = e.warehousesWithDist
     /\ nearbyWarehouses' = e.nearby
     /\ warehouseData' = e.warehouseData
     /\ UNCHANGED <<userLocation, lastQuery, mapperVars, hookVars, alertVars, explorerVars>>

\* geolocation variant: userLocation changes and the effect (dependency
\* [userLocation]) runs again
LocationChange(p) ==
  LET e == EffectResult(p)
  IN /\ p # userLocation
     /\ userLocation' = p
     /\ warehousesWithDistance' = e.warehousesWithDist
     /\ nearbyWarehouses' = e.nearby
     /\ warehouseData' = e.warehouseData
     /\ UNCHANGED <<lastQuery, mapperVars, hookVars, alertVars, explorerVars>>

\* a call getWarehousesWithinRadius(userLocation, list, r) on the base list
QueryBase(r) ==
  LET lat == userLocation.latitude
      lon == userLocation.longitude
  IN /\ lastQuery' = [userLat |-> lat, userLon |-> lon,
                      warehouses |-> warehouseData, radiusMiles |-> r,
                      result |-> getWarehousesWithinRadius(lat, lon, warehouseData, r)]
     /\ warehouseData' = WarehousesAfterCall(lat, lon, warehouseData)
     /\ UNCHANGED <<userLocation, warehousesWithDistance, nearbyWarehouses, mapperVars,
                  hookVars, alertVars, explorerVars>>

\* a call on the list an earlier call returned (re-filtering): its records
\* carry the distanceFromUser of that earlier call
QueryAnnotated(r) ==
  LET lat == userLocation.latitude
      lon == userLocation.longitude
  IN /\ lastQuery.result # <<>>
     /\ lastQuery' = [userLat |-> lat, userLon |-> lon,
                      warehouses |-> WarehousesAfterCall(lat, lon, lastQuery.result),
                      radiusMiles |-> r,
                      result |-> getWarehousesWithinRadius(lat, lon, lastQuery.result, r)]
     /\ UNCHANGED <<userLocation, warehouseData, warehousesWithDistance,
                    nearbyWarehouses, mapperVars, hookVars, alertVars, explorerVars>>

Next ==
  \/ IndexEffect
  \/ \E p \in Points : LocationChange(p)
  \/ \E r \in Radii : QueryBase(r)
  \/ \E r \in Radii : QueryAnnotated(r)

Spec == Init /\ [][Next]_vars

(***************************************************************************)
(* Properties of the proximity engine                                      *)
(***************************************************************************)
Ids(ws) == {ws[i].id : i \in DOMAIN ws}

\* the distance of facility w from the reference point of the last query
QueryDistance(w) ==
  calculateDistance(lastQuery.userLat, lastQuery.userLon, w.latitude, w.longitude)

\* C1: getWarehousesWithinRadius never returns a facility whose computed
\* distanceFromUser is greater than radiusMiles (for the last call with any
\* radius, and for the radius-10 and radius-2 results Index keeps).
C1_NeverBeyondRadius ==
  /\ \A i \in DOMAIN lastQuery.result :
       lastQuery.result[i].distanceFromUser <= lastQuery.radiusMiles
  /\ \A i \in DOMAIN warehousesWithDistance :
       warehousesWithDistance[i].distanceFromUser <= 10
  /\ \A i \in DOMAIN nearbyWarehouses :
       nearbyWarehouses[i].distanceFromUser <= 2

\* a call that kept one facility and dropped another that lies beyond the
\* radius
C1_Witness ==
  /\ lastQuery.result # <<>>
  /\ \E i \in DOMAIN lastQuery.warehouses :
       QueryDistance(lastQuery.warehouses[i]) > lastQuery.radiusMiles

IsAscending(ws) ==
  \A i, j \in DOMAIN ws : i < j => ws[i].distanceFromUser <= ws[j].distanceFromUser

HeadIsClosest(ws) ==
  ws # <<>> => \A i \in DOMAIN ws : ws[1].distanceFromUser <= ws[i].distanceFromUser

\* C2: the sequence getWarehousesWithinRadius returns is ordered ascending by
\* distanceFromUser, so its first element (closestWarehouse in Index) has the
\* minimum distance among the returned facilities.
C2_SortedAscending ==
  /\ IsAscending(lastQuery.result) /\ HeadIsClosest(lastQuery.result)
  /\ IsAscending(warehousesWithDistance) /\ HeadIsClosest(warehousesWithDistance)
  /\ IsAscending(nearbyWarehouses) /\ HeadIsClosest(nearbyWarehouses)

\* a call whose input had a farther facility in front of a nearer one, both
\* returned
C2_Witness ==
  \E i, j \in DOMAIN lastQuery.warehouses :
    /\ i < j
    /\ QueryDistance(lastQuery.warehouses[i]) > QueryDistance(lastQuery.warehouses[j])
    /\ QueryDistance(lastQuery.warehouses[i]) <= lastQuery.radiusMiles
    /\ Len(lastQuery.result) >= 2

\* C3: getWarehousesWithinRadius returns exactly the input facilities whose
\* distance to the reference is <= radiusMiles: each of them (also one exactly
\* at the radius) exactly once, and nothing that was not in the input.
C3_ExactlyWithinRadius ==
  LET input == lastQuery.warehouses
      out == lastQuery.result
  IN /\ \A i \in DOMAIN input :
          QueryDistance(input[i]) <= lastQuery.radiusMiles
            => Cardinality({j \in DOMAIN out : out[j].id = input[i].id}) = 1
     /\ \A j \in DOMAIN out :
          \E i \in DOMAIN input :
            /\ input[i].id = out[j].id
            /\ input[i].latitude = out[j].latitude
            /\ input[i].longitude = out[j].longitude
            /\ QueryDistance(input[i]) <= lastQuery.radiusMiles

\* a call with one facility exactly at a positive radius (returned) and another
\* beyond it (not returned)
C3_Witness ==
  /\ lastQuery.radiusMiles > 0
  /\ \E j \in DOMAIN lastQuery.result :
       lastQuery.result[j].distanceFromUser = lastQuery.radiusMiles
  /\ \E i \in DOMAIN lastQuery.warehouses :
       QueryDistance(lastQuery.warehouses[i]) > lastQuery.radiusMiles

\* C4: for a fixed reference point and facility collection and radii r1 <= r2
\* (in particular 2 and 10), the facilities returned for r1 are a subset of
\* those returned for r2.
C4_RadiusMonotone ==
  /\ Ids(nearbyWarehouses) \subseteq Ids(warehousesWithDistance)
  /\ \A r1, r2 \in Radii \cup {2, 10} :
       r1 <= r2 =>
         Ids(getWarehousesWithinRadius(userLocation.latitude,
               userLocation.longitude, warehouseData, r1))
         \subseteq
         Ids(getWarehousesWithinRadius(userLocation.latitude,
               userLocation.longitude, warehouseData, r2))

\* Index holds a non-empty radius-2 result, and two radii give a non-empty
\* result and a strictly larger one
C4_Witness ==
  /\ nearbyWarehouses # <<>>
  /\ \E r1, r2 \in Radii :
       LET small == getWarehousesWithinRadius(userLocation.latitude,
                      userLocation.longitude, warehouseData, r1)
           large == getWarehousesWithinRadius(userLocation.latitude,
                      userLocation.longitude, warehouseData, r2)
       IN r1 < r2 /\ small # <<>> /\ Len(small) < Len(large)

\* C5: getWarehousesWithinRadius leaves its input collection unchanged: over
\* every step (the effect of Index with its two calls, and any single call) the
\* base list keeps its elements, their order, and no element gains or changes a
\* distanceFromUser.
C5_InputUnchanged == [][warehouseData' = warehouseData]_vars

\* the radius-10 and radius-2 queries of Index and a further call have
\* returned facilities, and no element of the base list carries a distance
C5_Witness ==
  /\ warehousesWithDistance # <<>>
  /\ nearbyWarehouses # <<>>
  /\ lastQuery.result # <<>>
  /\ lastQuery.warehouses = warehouseData
  /\ \A i \in DOMAIN warehouseData : warehouseData[i].distanceFromUser = undefined

\* C6: the distanceFromUser of every returned facility is the distance from the
\* reference point of that query to the facility; a distanceFromUser already on
\* an input record from an earlier query is overwritten.
C6_DistanceIsFresh ==
  /\ \A j \in DOMAIN lastQuery.result :
       lastQuery.result[j].distanceFromUser = QueryDistance(lastQuery.result[j])
  /\ \A j \in DOMAIN warehousesWithDistance :
       warehousesWithDistance[j].distanceFromUser =
         calculateDistance(userLocation.latitude, userLocation.longitude,
                           warehousesWithDistance[j].latitude,
                           warehousesWithDistance[j].longitude)
  /\ \A j \in DOMAIN nearbyWarehouses :
       nearbyWarehouses[j].distanceFromUser =
         calculateDistance(userLocation.latitude, userLocation.longitude,
                           nearbyWarehouses[j].latitude,
                           nearbyWarehouses[j].longitude)

\* a call whose input carried a distance from an earlier reference point that
\* differs from the distance to the reference point of this call, for a
\* facility that is returned
C6_Witness ==
  \E i \in DOMAIN lastQuery.warehouses :
    LET w == lastQuery.warehouses[i]
    IN /\ w.distanceFromUser # undefined
       /\ w.distanceFromUser # QueryDistance(w)
       /\ w.id \in Ids(lastQuery.result)


(***************************************************************************)
(* Schema mapper: src/unnamed/part_013 (DataMapper)                        *)
(*                                                                         *)
(* Strings are sequences of one-character strings, so that includes,       *)
(* join, toLowerCase, String and parseFloat are computed character by      *)
(* character.  Numbers are counted in tenths (338 is 33.8).                *)
(***************************************************************************)
\* the field names the mapper looks up, and one it does not know (operator)
s_id == <<"i", "d">>
s_facility_id == <<"f", "a", "c", "i", "l", "i", "t", "y", "_", "i", "d">>
s_warehouse_id == <<"w", "a", "r", "e", "h", "o", "u", "s", "e", "_", "i", "d">>
s_project_id == <<"p", "r", "o", "j", "e", "c", "t", "_", "i", "d">>
s_unique_id == <<"u", "n", "i", "q", "u", "e", "_", "i", "d">>
s_name == <<"n", "a", "m", "e">>
s_facility_name == <<"f", "a", "c", "i", "l", "i", "t", "y", "_", "n", "a", "m", "e">>
s_warehouse_name == <<"w", "a", "r", "e", "h", "o", "u", "s", "e", "_", "n", "a", "m", "e">>
s_project_name == <<"p", "r", "o", "j", "e", "c", "t", "_", "n", "a", "m", "e">>
s_site_name == <<"s", "i", "t", "e", "_", "n", "a", "m", "e">>
s_street_address == <<"s", "t", "r", "e", "e", "t", "_", "a", "d", "d", "r", "e", "s", "s">>
s_address == <<"a", "d", "d", "r", "e", "s", "s">>
s_city == <<"c", "i", "t", "y">>
s_state == <<"s", "t", "a", "t", "e">>
s_zip_code == <<"z", "i", "p", "_", "c", "o", "d", "e">>
s_zipcode == <<"z", "i", "p", "c", "o", "d", "e">>
s_latitude == <<"l", "a", "t", "i", "t", "u", "d", "e">>
s_lat == <<"l", "a", "t">>
s_y_coordinate == <<"y", "_", "c", "o", "o", "r", "d", "i", "n", "a", "t", "e">>
s_coord_lat == <<"c", "o", "o", "r", "d", "_", "l", "a", "t">>
s_longitude == <<"l", "o", "n", "g", "i", "t", "u", "d", "e">>
s_lng == <<"l", "n", "g">>
s_lon == <<"l", "o", "n">>
s_x_coordinate == <<"x", "_", "c", "o", "o", "r", "d", "i", "n", "a", "t", "e">>
s_coord_lng == <<"c", "o", "o", "r", "d", "_", "l", "n", "g">>
s_status == <<"s", "t", "a", "t", "u", "s">>
s_construction_status == <<"c", "o", "n", "s", "t", "r", "u", "c", "t", "i", "o", "n", "_", "s", "t", "a", "t", "u", "s">>
s_operational_status == <<"o", "p", "e", "r", "a", "t", "i", "o", "n", "a", "l", "_", "s", "t", "a", "t", "u", "s">>
s_project_status == <<"p", "r", "o", "j", "e", "c", "t", "_", "s", "t", "a", "t", "u", "s">>
s_impact_stat == <<"i", "m", "p", "a", "c", "t", "_", "s", "t", "a", "t">>
s_impactStat == <<"i", "m", "p", "a", "c", "t", "S", "t", "a", "t">>
s_size_sqft == <<"s", "i", "z", "e", "_", "s", "q", "f", "t">>
s_building_size == <<"b", "u", "i", "l", "d", "i", "n", "g", "_", "s", "i", "z", "e">>
s_operator == <<"o", "p", "e", "r", "a", "t", "o", "r">>

(***************************************************************************)
(* JavaScript values                                                       *)
(***************************************************************************)
\* a value of a property: its typeof tag, its number (in tenths; for a
\* boolean 1 or 0) and its characters (for an array or a nested object the
\* characters of its string form)
JSValue(t, n, s) == [type |-> t, num |-> n, str |-> s]

Undefined == JSValue("undefined", 0, <<>>)
Null == JSValue("null", 0, <<>>)
Bool(b) == JSValue("boolean", IF b THEN 1 ELSE 0, <<>>)
Num(tenths) == JSValue("number", tenths, <<>>)
Str(chars) == JSValue("string", 0, chars)

\* the array [] and the nested object {}: typeof is "object", String([]) is
\* "" and String({}) is "[object Object]"
EmptyArray == JSValue("object", 0, <<>>)
EmptyObject ==
  JSValue("object", 0,
          <<"[", "o", "b", "j", "e", "c", "t", " ", "O", "b", "j", "e", "c", "t", "]">>)

\* the value in a condition: undefined, null, false, 0 and "" are falsy, an
\* array or an object is truthy
Truthy(v) ==
  \/ v.type = "boolean" /\ v.num = 1
  \/ v.type = "number" /\ v.num # 0
  \/ v.type = "string" /\ v.str # <<>>
  \/ v.type = "object"

\* the operands of || taken in the opposite order
OrRightFirst(a, b) == IF Truthy(b) THEN b ELSE a

\* a || b
Or(a, b) == IF Truthy(a) THEN a ELSE b

Digits == <<"0", "1", "2", "3", "4", "5", "6", "7", "8", "9">>

IsDigit(c) == \E d \in 1..10 : Digits[d] = c

DigitValue(c) == (CHOOSE d \in 1..10 : Digits[d] = c) - 1

\* the decimal digits of a natural number
RECURSIVE NatToString(_)
NatToString(n) ==
  IF n < 10 THEN <<Digits[n + 1]>>
  ELSE NatToString(n \div 10) \o <<Digits[(n % 10) + 1]>>

\* Number.prototype.toString of a number given in tenths
NumToString(tenths) ==
  LET m == IF tenths < 0 THEN -tenths ELSE tenths
  IN (IF tenths < 0 THEN <<"-">> ELSE <<>>)
     \o NatToString(m \div 10)
     \o (IF m % 10 = 0 THEN <<>> ELSE <<".", Digits[(m % 10) + 1]>>)

\* String(v), also the conversion of template literals and of join
String(v) ==
  CASE v.type = "string" -> v.str
    [] v.type = "object" -> v.str
    [] v.type = "number" -> NumToString(v.num)
    [] v.type = "boolean" -> IF v.num = 1 THEN <<"t", "r", "u", "e">> ELSE <<"f", "a", "l", "s", "e">>
    [] v.type = "null" -> <<"n", "u", "l", "l">>
    [] OTHER -> <<"u", "n", "d", "e", "f", "i", "n", "e", "d">>

\* digit groups of three separated by commas (en-US)
RECURSIVE GroupThousands(_)
GroupThousands(n) ==
  IF n < 1000 THEN NatToString(n)
  ELSE LET low == n % 1000
       IN GroupThousands(n \div 1000) \o <<",">>
          \o (IF low < 10 THEN <<"0", "0">> ELSE IF low < 100 THEN <<"0">> ELSE <<>>)
          \o NatToString(low)

\* v.toLocaleString() of a truthy value
ToLocaleString(v) ==
  IF v.type = "number"
  THEN LET m == IF v.num < 0 THEN -v.num ELSE v.num
       IN (IF v.num < 0 THEN <<"-">> ELSE <<>>)
          \o GroupThousands(m \div 10)
          \o (IF m % 10 = 0 THEN <<>> ELSE <<".", Digits[(m % 10) + 1]>>)
  ELSE String(v)

\* the longest prefix of s made of digits
RECURSIVE DigitPrefix(_)
DigitPrefix(s) ==
  IF s # <<>> /\ IsDigit(Head(s)) THEN <<Head(s)>> \o DigitPrefix(Tail(s)) ELSE <<>>

\* the number written by a sequence of digits
RECURSIVE DigitsToNat(_)
DigitsToNat(ds) ==
  IF ds = <<>> THEN 0
  ELSE 10 * DigitsToNat(SubSeq(ds, 1, Len(ds) - 1)) + DigitValue(ds[Len(ds)])

RECURSIVE TrimStart(_)
TrimStart(s) == IF s # <<>> /\ Head(s) = " " THEN TrimStart(Tail(s)) ELSE s

\* parseFloat(s): leading blanks, an optional sign, digits, an optional
\* fraction; the longest such prefix decides, and NaN if it has no digit.
\* The result is in tenths (fraction digits after the first are dropped).
parseFloat(s) ==
  LET t == TrimStart(s)
      negative == t # <<>> /\ Head(t) = "-"
      u == IF t # <<>> /\ (Head(t) = "-" \/ Head(t) = "+") THEN Tail(t) ELSE t
      int == DigitPrefix(u)
      rest == SubSeq(u, Len(int) + 1, Len(u))
      frac == IF rest # <<>> /\ Head(rest) = "." THEN DigitPrefix(Tail(rest)) ELSE <<>>
      tenths == 10 * DigitsToNat(int) + (IF frac = <<>> THEN 0 ELSE DigitValue(frac[1]))
  IN IF int = <<>> /\ frac = <<>>
     THEN [isNaN |-> TRUE, num |-> 0]
     ELSE [isNaN |-> FALSE, num |-> IF negative THEN -tenths ELSE tenths]

\* s.includes(t): t occurs in s as a substring
Includes(s, t) ==
  \E i \in 0..(Len(s) - Len(t)) : SubSeq(s, i + 1, i + Len(t)) = t

\* the parts joined with a comma and no blank
RECURSIVE JoinWithoutBlank(_)
JoinWithoutBlank(parts) ==
  IF parts = <<>> THEN <<>>
  ELSE IF Len(parts) = 1 THEN parts[1]
  ELSE parts[1] \o <<",">> \o JoinWithoutBlank(Tail(parts))

\* parts.join(', ') of an array of strings
RECURSIVE Join(_)
Join(parts) ==
  IF parts = <<>> THEN <<>>
  ELSE IF Len(parts) = 1 THEN parts[1]
  ELSE parts[1] \o <<",", " ">> \o Join(Tail(parts))

UpperCase ==
  <<"A", "B", "C", "D", "E", "F", "G", "H", "I", "J", "K", "L", "M",
  "N", "O", "P", "Q", "R", "S", "T", "U", "V", "W", "X", "Y", "Z">>
LowerCase ==
  <<"a", "b", "c", "d", "e", "f", "g", "h", "i", "j", "k", "l", "m",
  "n", "o", "p", "q", "r", "s", "t", "u", "v", "w", "x", "y", "z">>

\* String.prototype.toLowerCase
ToLowerCase(s) ==
  [i \in DOMAIN s |->
     IF \E k \in DOMAIN UpperCase : UpperCase[k] = s[i]
     THEN LowerCase[CHOOSE k \in DOMAIN UpperCase : UpperCase[k] = s[i]]
     ELSE s[i]]


(***************************************************************************)
(* mapWarehouseCityToWarehouse                                             *)
(***************************************************************************)
\* A JSON value is an object (its properties in insertion order, each a pair
\* of key and value, no key twice), an array of JSON values, or a primitive
JSONObject(props) ==
  [kind |-> "object", props |-> props, elements |-> <<>>, value |-> Undefined]
JSONArray(elements) ==
  [kind |-> "array", props |-> <<>>, elements |-> elements, value |-> Undefined]
JSONPrimitive(v) ==
  [kind |-> "primitive", props |-> <<>>, elements |-> <<>>, value |-> v]

\* rawData is an element of dataArray: an object or a primitive.  Its own
\* enumerable properties: those of an object, the indexed characters of a
\* string, none of a number or a boolean
OwnProps(rawData) ==
  CASE rawData.kind = "object" -> rawData.props
    [] rawData.kind = "primitive" /\ rawData.value.type = "string" ->
         [i \in DOMAIN rawData.value.str |->
            [key |-> NatToString(i - 1), value |-> Str(<<rawData.value.str[i]>>)]]
    [] rawData.kind = "primitive" /\ rawData.value.type # "string" -> <<>>

\* a null field value is taken to throw as well
ThrowsOnNullField(rawData) ==
  \/ rawData.kind = "primitive" /\ rawData.value = Null
  \/ \E i \in DOMAIN rawData.props : rawData.props[i].value = Null

\* reading a property of null throws a TypeError
Throws(rawData) == rawData.kind = "primitive" /\ rawData.value = Null

\* rawData[field]
Get(rawData, field) ==
  LET props == OwnProps(rawData)
  IN IF \E i \in DOMAIN props : props[i].key = field
     THEN props[CHOOSE i \in DOMAIN props : props[i].key = field].value
     ELSE Undefined

\* Object.keys(rawData)
ObjectKeys(rawData) ==
  LET props == OwnProps(rawData) IN [i \in DOMAIN props |-> props[i].key]

\* a message whose placeholders are left unfilled
TextWithoutValues(template, args) == [template |-> template, args |-> <<>>]

\* a message of the field report: the text of the source with the values
\* of its ${...} placeholders
Text(template, args) == [template |-> template, args |-> args]

\* a transformation that is not set
NoText == Text("", <<>>)

\* an element of mappingStatus
StatusEntry(field, mapped, sourceField, transformation, issues) ==
  [field |-> field, mapped |-> mapped, sourceField |-> sourceField,
   transformation |-> transformation, issues |-> issues]

\* candidates.find(field => rawData[field])
RECURSIVE FindTruthy(_, _)
FindTruthy(candidates, rawData) ==
  IF candidates = <<>> THEN Undefined
  ELSE IF Truthy(Get(rawData, Head(candidates))) THEN Str(Head(candidates))
       ELSE FindTruthy(Tail(candidates), rawData)

\* candidates.find(field => rawData[field] !== undefined)
RECURSIVE FindDefined(_, _)
FindDefined(candidates, rawData) ==
  IF candidates = <<>> THEN Undefined
  ELSE IF Get(rawData, Head(candidates)) # Undefined THEN Str(Head(candidates))
       ELSE FindDefined(Tail(candidates), rawData)

idCandidates == <<s_id, s_facility_id, s_warehouse_id, s_project_id, s_unique_id>>

\* the prefix of the generated fallback id
s_warehouse_ == <<"w", "a", "r", "e", "h", "o", "u", "s", "e", "_">>

\* the generated part is appended to an id that was found as well
MapIdWithSuffix(rawData, generated) ==
  LET idField == FindTruthy(idCandidates, rawData)
  IN IF Truthy(idField) /\ Truthy(Get(rawData, idField.str))
     THEN [value |-> Str(String(Get(rawData, idField.str)) \o generated),
           status |-> StatusEntry("id", TRUE, idField,
                        Text("Convert to string", <<>>), <<>>)]
     ELSE [value |-> Str(s_warehouse_ \o generated),
           status |-> StatusEntry("id", FALSE, Undefined, NoText,
                        <<Text("No unique ID found - generated fallback ID", <<>>)>>)]

\* 1. MAP ID FIELD: the value of mappedWarehouse.id and the field report
MapId(rawData, generated) ==
  LET idField == FindTruthy(idCandidates, rawData)
  IN IF Truthy(idField) /\ Truthy(Get(rawData, idField.str))
     THEN [value |-> Str(String(Get(rawData, idField.str))),
           status |-> StatusEntry("id", TRUE, idField,
                        Text("Convert to string", <<>>), <<>>)]
     ELSE [value |-> Str(s_warehouse_ \o generated),
           status |-> StatusEntry("id", FALSE, Undefined, NoText,
                        <<Text("No unique ID found - generated fallback ID", <<>>)>>)]

nameCandidates ==
  <<s_name, s_facility_name, s_warehouse_name, s_project_name, s_site_name>>

\* 2. MAP NAME FIELD
MapName(rawData) ==
  LET nameField == FindTruthy(nameCandidates, rawData)
  IN IF Truthy(nameField) /\ Truthy(Get(rawData, nameField.str))
     THEN [value |-> Str(String(Get(rawData, nameField.str))),
           status |-> StatusEntry("name", TRUE, nameField, NoText, <<>>)]
     ELSE [value |-> Undefined,
           status |-> StatusEntry("name", FALSE, Undefined, NoText,
                        <<Text("No warehouse name found", <<>>)>>)]

addressKeys == <<s_street_address, s_address, s_city, s_state, s_zip_code, s_zipcode>>

s_ConstructedFrom == 
  <<"C", "o", "n", "s", "t", "r", "u", "c", "t", "e", "d", " ", "f", "r", "o", "m", ":", " ">>

\* keys.filter(k => list.includes(k))
RECURSIVE FilterMember(_, _)
FilterMember(keys, list) ==
  IF keys = <<>> THEN <<>>
  ELSE (IF \E i \in DOMAIN list : list[i] = Head(keys) THEN <<Head(keys)>> ELSE <<>>)
       \o FilterMember(Tail(keys), list)

\* the strings of an array of values, as join converts them
StringsOf(values) == [i \in DOMAIN values |-> String(values[i])]

\* 3. MAP ADDRESS FIELD
MapAddress(rawData) ==
  LET street == Or(Get(rawData, s_street_address), Get(rawData, s_address))
      zip == Or(Get(rawData, s_zip_code), Get(rawData, s_zipcode))
      addressParts ==
        (IF Truthy(street) THEN <<street>> ELSE <<>>)
        \o (IF Truthy(Get(rawData, s_city)) THEN <<Get(rawData, s_city)>> ELSE <<>>)
        \o (IF Truthy(Get(rawData, s_state)) THEN <<Get(rawData, s_state)>> ELSE <<>>)
        \o (IF Truthy(zip) THEN <<zip>> ELSE <<>>)
  IN IF Len(addressParts) > 0
     THEN [value |-> Str(Join(StringsOf(addressParts))),
           status |-> StatusEntry("address", TRUE,
                        Str(s_ConstructedFrom
                            \o Join(FilterMember(ObjectKeys(rawData), addressKeys))),
                        Text("Concatenate address components", <<>>), <<>>)]
     ELSE [value |-> Undefined,
           status |-> StatusEntry("address", FALSE, Undefined, NoText,
                        <<Text("No address components found", <<>>)>>)]

\* 4. and 5.: the latitude block and the longitude block are the same code
\* over their candidate lists
MapNumber(rawData, candidates, field, notFound) ==
  LET numField == FindDefined(candidates, rawData)
      value == IF Truthy(numField) THEN Get(rawData, numField.str) ELSE Undefined
      parsed == parseFloat(String(value))
  IN IF Truthy(numField) /\ value.type = "number"
     THEN [value |-> value,
           status |-> StatusEntry(field, TRUE, numField, NoText, <<>>)]
     ELSE IF Truthy(numField) /\ Truthy(value)
     THEN IF ~parsed.isNaN
          THEN [value |-> Num(parsed.num),
                status |-> StatusEntry(field, TRUE, numField,
                             Text("Parse string to number", <<>>), <<>>)]
          ELSE [value |-> Undefined,
                status |-> StatusEntry(field, FALSE, Undefined, NoText,
                             <<Text("Found ${field} but cannot parse as number: ${value}",
                                    <<numField.str, String(value)>>)>>)]
     ELSE [value |-> Undefined,
           status |-> StatusEntry(field, FALSE, Undefined, NoText,
                        <<Text(notFound, <<>>)>>)]

latCandidates == <<s_latitude, s_lat, s_y_coordinate, s_coord_lat>>

\* 4. MAP LATITUDE FIELD
MapLatitude(rawData) ==
  MapNumber(rawData, latCandidates, "latitude", "No latitude coordinate found")

lngCandidates == <<s_longitude, s_lng, s_lon, s_x_coordinate, s_coord_lng>>

\* 5. MAP LONGITUDE FIELD
MapLongitude(rawData) ==
  MapNumber(rawData, lngCandidates, "longitude", "No longitude coordinate found")

statusCandidates ==
  <<s_status, s_construction_status, s_operational_status, s_project_status>>

\* rawStatus.includes(k) for some keyword k of the set
IncludesAny(rawStatus, keywords) ==
  \E i \in DOMAIN keywords : Includes(rawStatus, keywords[i])

upcomingKeywords == <<<<"u", "p", "c", "o", "m", "i", "n", "g">>,
                      <<"p", "l", "a", "n", "n", "e", "d">>,
                      <<"p", "r", "o", "p", "o", "s", "e", "d">>>>
constructionKeywords == <<<<"c", "o", "n", "s", "t", "r", "u", "c", "t", "i", "o", "n">>,
                          <<"b", "u", "i", "l", "d", "i", "n", "g">>,
                          <<"d", "e", "v", "e", "l", "o", "p", "m", "e", "n", "t">>>>
operatingKeywords == <<<<"o", "p", "e", "r", "a", "t", "i", "n", "g">>,
                       <<"o", "p", "e", "r", "a", "t", "i", "o", "n", "a", "l">>,
                       <<"a", "c", "t", "i", "v", "e">>,
                       <<"o", "p", "e", "n">>>>
dormantKeywords == <<<<"d", "o", "r", "m", "a", "n", "t">>,
                     <<"c", "l", "o", "s", "e", "d">>,
                     <<"i", "n", "a", "c", "t", "i", "v", "e">>>>

\* the chain ending in a default status instead of leaving it unset
ClassifyStatusDefaultOperating(rawStatus) ==
  IF IncludesAny(rawStatus, upcomingKeywords) THEN Str(<<"u", "p", "c", "o", "m", "i", "n", "g">>)
  ELSE IF IncludesAny(rawStatus, constructionKeywords) THEN Str(<<"i", "n", "-", "c", "o", "n", "s", "t", "r", "u", "c", "t", "i", "o", "n">>)
  ELSE IF IncludesAny(rawStatus, operatingKeywords) THEN Str(<<"o", "p", "e", "r", "a", "t", "i", "n", "g">>)
  ELSE IF IncludesAny(rawStatus, dormantKeywords) THEN Str(<<"d", "o", "r", "m", "a", "n", "t">>)
  ELSE Str(<<"o", "p", "e", "r", "a", "t", "i", "n", "g">>)

\* the chain with the dormant keywords tested before the operating ones
ClassifyStatusDormantFirst(rawStatus) ==
  IF IncludesAny(rawStatus, upcomingKeywords) THEN Str(<<"u", "p", "c", "o", "m", "i", "n", "g">>)
  ELSE IF IncludesAny(rawStatus, constructionKeywords) THEN Str(<<"i", "n", "-", "c", "o", "n", "s", "t", "r", "u", "c", "t", "i", "o", "n">>)
  ELSE IF IncludesAny(rawStatus, dormantKeywords) THEN Str(<<"d", "o", "r", "m", "a", "n", "t">>)
  ELSE IF IncludesAny(rawStatus, operatingKeywords) THEN Str(<<"o", "p", "e", "r", "a", "t", "i", "n", "g">>)
  ELSE Undefined

\* the if / else-if chain over the lower-cased status text; Undefined if no
\* keyword occurs
ClassifyStatus(rawStatus) ==
  IF IncludesAny(rawStatus, upcomingKeywords) THEN Str(<<"u", "p", "c", "o", "m", "i", "n", "g">>)
  ELSE IF IncludesAny(rawStatus, constructionKeywords) THEN Str(<<"i", "n", "-", "c", "o", "n", "s", "t", "r", "u", "c", "t", "i", "o", "n">>)
  ELSE IF IncludesAny(rawStatus, operatingKeywords) THEN Str(<<"o", "p", "e", "r", "a", "t", "i", "n", "g">>)
  ELSE IF IncludesAny(rawStatus, dormantKeywords) THEN Str(<<"d", "o", "r", "m", "a", "n", "t">>)
  ELSE Undefined

\* 6. MAP STATUS FIELD
MapStatus(rawData) ==
  LET statusField == FindTruthy(statusCandidates, rawData)
      value == IF Truthy(statusField) THEN Get(rawData, statusField.str) ELSE Undefined
      mappedStatus == ClassifyStatus(ToLowerCase(String(value)))
  IN IF Truthy(statusField) /\ Truthy(value)
     THEN IF Truthy(mappedStatus)
          THEN [value |-> mappedStatus,
                status |-> StatusEntry("status", TRUE, statusField,
                             Text("Map \"${raw}\" to \"${mappedStatus}\"",
                                  <<String(value), mappedStatus.str>>), <<>>)]
          ELSE [value |-> Undefined,
                status |-> StatusEntry("status", FALSE, Undefined, NoText,
                             <<Text("Unknown status value: \"${raw}\" - cannot map to our enum",
                                    <<String(value)>>)>>)]
     ELSE [value |-> Undefined,
           status |-> StatusEntry("status", FALSE, Undefined, NoText,
                        <<Text("No status field found", <<>>)>>)]

s_ImpactNotAvailable ==
  <<"I", "m", "p", "a", "c", "t", " ", "d", "a", "t", "a",
  " ", "n", "o", "t", " ", "a", "v", "a", "i", "l", "a", "b", "l", "e">>

s_SqFtFacility == 
  <<" ", "s", "q", " ", "f", "t", " ", "f", "a", "c", "i", "l", "i", "t", "y">>

\* 7. MAP IMPACT STAT FIELD
MapImpactStat(rawData) ==
  LET impact == Or(Get(rawData, s_impact_stat), Get(rawData, s_impactStat))
      size == Or(Get(rawData, s_size_sqft), Get(rawData, s_building_size))
      generatedImpact ==
        IF Truthy(size) THEN ToLocaleString(size) \o s_SqFtFacility
        ELSE s_ImpactNotAvailable
  IN IF Truthy(impact)
     THEN [value |-> Str(String(impact)),
           status |-> StatusEntry("impactStat", TRUE,
                        IF Truthy(Get(rawData, s_impact_stat))
                        THEN Str(s_impact_stat) ELSE Str(s_impactStat),
                        NoText, <<>>)]
     ELSE [value |-> Str(generatedImpact),
           status |-> StatusEntry("impactStat", FALSE, Undefined,
                        Text("Generated placeholder: \"${generatedImpact}\"",
                             <<generatedImpact>>),
                        <<Text("No community impact data - this will need to be added manually",
                               <<>>)>>)]

\* mappingStatus.filter(status => status.sourceField).map(status => status.sourceField)
RECURSIVE UsedFields(_)
UsedFields(mappingStatus) ==
  IF mappingStatus = <<>> THEN <<>>
  ELSE (IF Truthy(Head(mappingStatus).sourceField)
        THEN <<Head(mappingStatus).sourceField.str>> ELSE <<>>)
       \o UsedFields(Tail(mappingStatus))

\* keys.filter(field => !usedFields.some(used => used?.includes(field)))
RECURSIVE FilterUnused(_, _)
FilterUnused(keys, usedFields) ==
  IF keys = <<>> THEN <<>>
  ELSE (IF \E i \in DOMAIN usedFields : Includes(usedFields[i], Head(keys))
        THEN <<>> ELSE <<Head(keys)>>)
       \o FilterUnused(Tail(keys), usedFields)

\* 8. IDENTIFY UNMAPPED FIELDS
UnmappedFields(rawData, mappingStatus) ==
  FilterUnused(ObjectKeys(rawData), UsedFields(mappingStatus))

requiredFields ==
  <<"id", "name", "address", "latitude", "longitude", "status", "impactStat">>

\* 9. IDENTIFY MISSING REQUIRED FIELDS:
\* requiredFields.filter(field => !mappedWarehouse[field])
RECURSIVE FilterMissing(_, _)
FilterMissing(fields, mappedWarehouse) ==
  IF fields = <<>> THEN <<>>
  ELSE (IF ~Truthy(mappedWarehouse[Head(fields)]) THEN <<Head(fields)>> ELSE <<>>)
       \o FilterMissing(Tail(fields), mappedWarehouse)

\* only the reports of the mapped fields are pushed
PushMappedReports(blocks) ==
  LET mappedOnes == SelectSeq(blocks, LAMBDA b : b.status.mapped)
  IN [i \in DOMAIN mappedOnes |-> mappedOnes[i].status]

\* mappingStatus.push(...) of the seven blocks, each pushing the one report of
\* the branch it took
PushReports(blocks) == [i \in DOMAIN blocks |-> blocks[i].status]

\* the MappingResult of one source record; generated is the time and random
\* part of a fallback id
mapWarehouseCityToWarehouse(rawData, generated) ==
  LET id == MapId(rawData, generated)
      name == MapName(rawData)
      address == MapAddress(rawData)
      latitude == MapLatitude(rawData)
      longitude == MapLongitude(rawData)
      status == MapStatus(rawData)
      impactStat == MapImpactStat(rawData)
      mappedWarehouse ==
        [id |-> id.value, name |-> name.value, address |-> address.value,
         latitude |-> latitude.value, longitude |-> longitude.value,
         status |-> status.value, impactStat |-> impactStat.value]
      mappingStatus ==
        PushReports(<<id, name, address, latitude, longitude, status, impactStat>>)
  IN [originalData |-> rawData,
      mappedWarehouse |-> mappedWarehouse,
      mappingStatus |-> mappingStatus,
      missingFields |-> FilterMissing(requiredFields, mappedWarehouse),
      unmappedFields |-> UnmappedFields(rawData, mappingStatus)]


(***************************************************************************)
(* DataMapper: analysing one source record                                 *)
(***************************************************************************)
\* the keys source records are built from: aliases of the identifier, the
\* name, the coordinates and the address, and a key the mapper does not know
KeyPool ==
  <<s_id, s_facility_id, s_name, s_facility_name, s_latitude, s_lat,
    s_longitude, s_lng, s_address, s_operator>>

\* the values of a property: null, numbers (0 and 33.8), and strings (empty,
\* not numeric, numeric)
ValuePool ==
  {Null, Num(0), Num(338), Str(<<>>), Str(<<"a", "b">>), Str(<<"7", ".", "5">>)}

\* the source records with at most MaxFields properties, keys in the order of
\* KeyPool
SourceRecords ==
  UNION { { [i \in 1..n |-> [key |-> KeyPool[ks[i]], value |-> vs[i]]] :
              ks \in { k \in [1..n -> DOMAIN KeyPool] :
                         \A i, j \in 1..n : i < j => k[i] < k[j] },
              vs \in [1..n -> ValuePool] }
          : n \in 0..MaxFields }

\* the time and random parts of a generated id (Date.now(), Math.random())
GeneratedParts == {<<"1", "_", "a">>, <<"2", "_", "b">>}

\* the text that JSON.parse turns into parsed, and a text it rejects
JSONText(parsed) == [kind |-> "json", parsed |-> parsed]
MalformedText == [kind |-> "malformed", parsed |-> BlankText.parsed]

\* a notification
Toast(title, description, variant) ==
  [title |-> title, description |-> description, variant |-> variant]

MapperInit ==
  /\ sampleData \in {JSONText(JSONObject(r)) : r \in SourceRecords}
  /\ mappingResults = <<>>
  /\ loading = FALSE
  /\ toast = NoToast
  /\ useGeolocationInit
  /\ IndexAlertInit
  /\ DataExplorerInit
  /\ warehouseData = <<>>
  /\ userLocation = defaultUserLocation
  /\ warehousesWithDistance = <<>>
  /\ nearbyWarehouses = <<>>
  /\ lastQuery = [userLat |-> defaultUserLocation.latitude,
                  userLon |-> defaultUserLocation.longitude,
                  warehouses |-> <<>>, radiusMiles |-> 2, result |-> <<>>]

\* the first setLoading call of a run decides
LoadingAfterFirstCall(current, calls) ==
  IF calls = <<>> THEN current ELSE calls[1]

\* the value of loading after the setLoading calls of one run, in order
LoadingAfter(current, calls) ==
  IF calls = <<>> THEN current ELSE calls[Len(calls)]

\* only the first element of an array is analysed
DataArrayFirstOnly(parsedData) ==
  IF parsedData.kind = "array"
  THEN (IF Len(parsedData.elements) > 1
        THEN <<parsedData.elements[1]>> ELSE parsedData.elements)
  ELSE <<parsedData>>

\* Array.isArray(parsedData) ? parsedData : [parsedData]
DataArray(parsedData) ==
  IF parsedData.kind = "array" THEN parsedData.elements ELSE <<parsedData>>

\* dataArray.map(item => mapWarehouseCityToWarehouse(item)); generated[i] is
\* the time and random part drawn while item i is mapped
MapItems(dataArray, generated) ==
  [i \in DOMAIN dataArray |-> mapWarehouseCityToWarehouse(dataArray[i], generated[i])]

\* analyzeSampleData, the click on the button (disabled while loading)
AnalyzeSampleData(generated) ==
  /\ ~loading
  /\ IF sampleData.kind = "blank"
     THEN \* !sampleData.trim(): return before setLoading
          /\ toast' = Toast("Error", Text("Please enter sample data to analyze", <<>>),
                            "destructive")
          /\ loading' = LoadingAfter(loading, <<>>)
          /\ UNCHANGED mappingResults
     ELSE IF sampleData.kind = "malformed"
     THEN \* JSON.parse throws: the inner catch, then finally
          /\ toast' = Toast("Error", Text("Please enter valid JSON data", <<>>),
                            "destructive")
          /\ loading' = LoadingAfter(loading, <<TRUE, FALSE, FALSE>>)
          /\ UNCHANGED mappingResults
     ELSE LET dataArray == DataArray(sampleData.parsed)
          IN IF \E i \in DOMAIN dataArray : Throws(dataArray[i])
             THEN \* the mapper throws: the outer catch, then finally
                  /\ toast' = Toast("Error", Text("Failed to analyze data: ${error}",
                                                  <<"TypeError">>), "destructive")
                  /\ loading' = LoadingAfter(loading, <<TRUE, FALSE>>)
                  /\ UNCHANGED mappingResults
             ELSE LET results == MapItems(dataArray, generated)
                  IN /\ mappingResults' = results
                     /\ toast' = Toast("Analysis Complete",
                                       Text("Analyzed ${results.length} warehouse record(s)",
                                            <<NatToString(Len(results))>>), "default")
                     /\ loading' = LoadingAfter(loading, <<TRUE, FALSE>>)
  /\ UNCHANGED <<sampleData, proxVars, hookVars, alertVars, explorerVars>>

\* the generated parts of the items of one run
GeneratedChoices == [1..MaxBatch -> GeneratedParts]

MapperNext == \E g \in GeneratedChoices : AnalyzeSampleData(g)

MapperSpec == MapperInit /\ [][MapperNext]_vars

(***************************************************************************)
(* Properties of the schema mapper                                         *)
(***************************************************************************)
Range(seq) == {seq[i] : i \in DOMAIN seq}

\* the field report of a required field
Report(result, field) ==
  result.mappingStatus[CHOOSE i \in DOMAIN result.mappingStatus :
                         result.mappingStatus[i].field = field]

\* C7: missingFields is exactly the set of required fields that have no value
\* in mappedWarehouse after mapping; a field that was mapped to a value (also a
\* latitude or longitude equal to 0) is never listed as missing.
C7_MissingFieldsExact ==
  \A k \in DOMAIN mappingResults :
    LET result == mappingResults[k]
    IN Range(result.missingFields) =
         {f \in Range(requiredFields) : result.mappedWarehouse[f] = Undefined}

\* the keys that a successful field mapping names as its source: the alias of
\* a mapped id, name, latitude, longitude, status or impactStat, and the
\* address components of a mapped address
ConsultedKeys(result) ==
  LET aliasOf(field) ==
        IF Report(result, field).mapped
        THEN {Report(result, field).sourceField.str} ELSE {}
  IN aliasOf("id") \cup aliasOf("name") \cup aliasOf("latitude")
     \cup aliasOf("longitude") \cup aliasOf("status") \cup aliasOf("impactStat")
     \cup (IF Report(result, "address").mapped
           THEN Range(ObjectKeys(result.originalData)) \cap Range(addressKeys)
           ELSE {})

\* C8: unmappedFields is exactly the set of keys of the source record that no
\* successful field mapping consulted, also when one key name is a substring of
\* another (lat and latitude, id and facility_id, name and facility_name).
C8_UnmappedFieldsExact ==
  \A k \in DOMAIN mappingResults :
    LET result == mappingResults[k]
    IN Range(result.unmappedFields) =
         Range(ObjectKeys(result.originalData)) \ ConsultedKeys(result)

\* a value that is present and not empty: not absent, not null, not ""
NonEmpty(v) == v # Undefined /\ v # Null /\ v # Str(<<>>)

\* the first alias of the list that holds a value satisfying usable, if any
FirstAlias(rawData, candidates, usable(_)) ==
  LET hits == {i \in DOMAIN candidates : usable(Get(rawData, candidates[i]))}
  IN IF hits = {} THEN Undefined
     ELSE Str(candidates[CHOOSE i \in hits : \A j \in hits : i <= j])

\* C9: for the identifier and the display name, the mapped value is the string
\* form of the first alias in priority order that holds a usable (non-empty)
\* value, and the field report names that alias as sourceField; a later alias
\* is used only when every earlier alias is absent or empty.
C9_FirstNonEmptyAliasWins ==
  \A k \in DOMAIN mappingResults :
    LET result == mappingResults[k]
        rawData == result.originalData
        holds(field, candidates) ==
          LET first == FirstAlias(rawData, candidates, NonEmpty)
          IN first # Undefined =>
               /\ result.mappedWarehouse[field] = Str(String(Get(rawData, first.str)))
               /\ Report(result, field).mapped
               /\ Report(result, field).sourceField = first
    IN holds("id", idCandidates) /\ holds("name", nameCandidates)

\* a usable coordinate value: a number, or a string that parses as a number
UsableNumber(v) ==
  \/ v.type = "number"
  \/ v.type = "string" /\ ~parseFloat(v.str).isNaN

\* the number a usable coordinate value stands for
NumberOf(v) == IF v.type = "number" THEN v ELSE Num(parseFloat(v.str).num)

\* C10: for latitude and longitude, the mapped value comes from the first alias
\* in priority order that holds a usable value (a number or a string that
\* parses as a number); when an earlier alias is present but holds null or an
\* unparsable string and a later alias holds a valid number, the later alias
\* wins and the field is mapped.
C10_FirstUsableCoordinateWins ==
  \A k \in DOMAIN mappingResults :
    LET result == mappingResults[k]
        rawData == result.originalData
        holds(field, candidates) ==
          LET first == FirstAlias(rawData, candidates, UsableNumber)
          IN first # Undefined =>
               /\ result.mappedWarehouse[field] = NumberOf(Get(rawData, first.str))
               /\ Report(result, field).mapped
               /\ Report(result, field).sourceField = first
    IN holds("latitude", latCandidates) /\ holds("longitude", lngCandidates)

(***************************************************************************)
(* DataMapper: records of status, impact, size and identifier fields       *)
(***************************************************************************)
\* the keys of these records: an identifier alias, two status aliases, both
\* impact keys and both size keys
FieldKeyPool ==
  <<s_id, s_status, s_construction_status, s_impact_stat, s_impactStat,
    s_size_sqft, s_building_size>>

s_Inactive == <<"I", "n", "a", "c", "t", "i", "v", "e">>
s_mothballed == <<"m", "o", "t", "h", "b", "a", "l", "l", "e", "d">>
s_PlannedConstruction == <<"P", "l", "a", "n", "n", "e", "d", " ", "C", "o", "n", "s", "t", "r", "u", "c", "t", "i", "o", "n">>
s_closed == <<"c", "l", "o", "s", "e", "d">>
s_OpenDevelopment == <<"O", "p", "e", "n", " ", "D", "e", "v", "e", "l", "o", "p", "m", "e", "n", "t">>

\* the values of these records: 0, a size of 500000, the empty string, the
\* empty array, and status texts in mixed case that match no keyword set, one
\* set, or several
FieldValuePool ==
  {Num(0), Num(5000000), Str(<<>>), EmptyArray, Str(s_Inactive), Str(s_mothballed),
   Str(s_PlannedConstruction), Str(s_closed), Str(s_OpenDevelopment)}

\* the records with at most MaxFields properties over a list of keys and a
\* set of values, keys in the order of the list
RecordsOver(keys, values) ==
  UNION { { [i \in 1..n |-> [key |-> keys[ks[i]], value |-> vs[i]]] :
              ks \in { k \in [1..n -> DOMAIN keys] :
                         \A i, j \in 1..n : i < j => k[i] < k[j] },
              vs \in [1..n -> values] }
          : n \in 0..MaxFields }

FieldInit ==
  /\ sampleData \in {JSONText(JSONObject(r)) : r \in RecordsOver(FieldKeyPool, FieldValuePool)}
  /\ mappingResults = <<>>
  /\ loading = FALSE
  /\ toast = NoToast
  /\ useGeolocationInit
  /\ IndexAlertInit
  /\ DataExplorerInit
  /\ warehouseData = <<>>
  /\ userLocation = defaultUserLocation
  /\ warehousesWithDistance = <<>>
  /\ nearbyWarehouses = <<>>
  /\ lastQuery = [userLat |-> defaultUserLocation.latitude,
                  userLon |-> defaultUserLocation.longitude,
                  warehouses |-> <<>>, radiusMiles |-> 2, result |-> <<>>]

FieldSpec == FieldInit /\ [][MapperNext]_vars

(***************************************************************************)
(* Properties of the status, impact and identifier mappings                *)
(***************************************************************************)
\* the keyword sets and their targets in the order of evaluation
StatusSets ==
  <<[keywords |-> upcomingKeywords, target |-> <<"u", "p", "c", "o", "m", "i", "n", "g">>],
    [keywords |-> constructionKeywords, target |-> <<"i", "n", "-", "c", "o", "n", "s", "t", "r", "u", "c", "t", "i", "o", "n">>],
    [keywords |-> operatingKeywords, target |-> <<"o", "p", "e", "r", "a", "t", "i", "n", "g">>],
    [keywords |-> dormantKeywords, target |-> <<"d", "o", "r", "m", "a", "n", "t">>]>>

\* the lower-cased text of the first status alias holding a value, or
\* Undefined if no alias holds one
StatusText(rawData) ==
  LET alias == FirstAlias(rawData, statusCandidates, Truthy)
  IN IF alias = Undefined THEN Undefined
     ELSE Str(ToLowerCase(String(Get(rawData, alias.str))))

\* the sets that have a keyword occurring in the text
MatchingSets(text) ==
  {i \in DOMAIN StatusSets : IncludesAny(text, StatusSets[i].keywords)}

\* C11: status classification evaluates the keyword sets top-down in the order
\* upcoming, in-construction, operating, dormant: for every lower-cased status
\* text the result is the target of the first set in that order having a
\* keyword that occurs as a substring, so a text matching several sets gets the
\* earliest one.
C11_FirstMatchingSetWins ==
  \A k \in DOMAIN mappingResults :
    LET result == mappingResults[k]
        text == StatusText(result.originalData)
        hits == IF text = Undefined THEN {} ELSE MatchingSets(text.str)
    IN hits # {} =>
         result.mappedWarehouse.status =
           Str(StatusSets[CHOOSE i \in hits : \A j \in hits : i <= j].target)

\* a text matching the in-construction set and the operating set was
\* classified as in-construction
C11_Witness ==
  \E k \in DOMAIN mappingResults :
    LET result == mappingResults[k]
        text == StatusText(result.originalData)
    IN /\ text # Undefined
       /\ MatchingSets(text.str) = {2, 3}
       /\ result.mappedWarehouse.status = Str(<<"i", "n", "-", "c", "o", "n", "s", "t", "r", "u", "c", "t", "i", "o", "n">>)

\* C12: a source status text containing one of the keywords dormant, closed or
\* inactive (and no keyword of the upcoming or in-construction sets), for
\* example "inactive", is mapped to the lifecycle status dormant.
C12_DormantKeywordsMapToDormant ==
  \A k \in DOMAIN mappingResults :
    LET result == mappingResults[k]
        text == StatusText(result.originalData)
    IN (/\ text # Undefined
        /\ IncludesAny(text.str, dormantKeywords)
        /\ ~IncludesAny(text.str, upcomingKeywords)
        /\ ~IncludesAny(text.str, constructionKeywords))
       => result.mappedWarehouse.status = Str(<<"d", "o", "r", "m", "a", "n", "t">>)

\* C13: when the first non-empty status alias holds a text that matches no
\* keyword set (for example "mothballed"), mappedWarehouse has no status, the
\* status field report has mapped=false with an issue, and status is listed in
\* missingFields; no default status is ever assigned.
C13_UnknownStatusStaysUnmapped ==
  \A k \in DOMAIN mappingResults :
    LET result == mappingResults[k]
        text == StatusText(result.originalData)
        matched == text # Undefined /\ MatchingSets(text.str) # {}
    IN /\ (text # Undefined /\ ~matched) =>
            /\ result.mappedWarehouse.status = Undefined
            /\ ~Report(result, "status").mapped
            /\ Len(Report(result, "status").issues) > 0
            /\ "status" \in Range(result.missingFields)
       /\ result.mappedWarehouse.status # Undefined => matched

\* the text "mothballed" was analysed and left the status unmapped
C13_Witness ==
  \E k \in DOMAIN mappingResults :
    LET result == mappingResults[k]
    IN /\ StatusText(result.originalData) = Str(s_mothballed)
       /\ result.mappedWarehouse.status = Undefined
       /\ "status" \in Range(result.missingFields)

\* C14: when neither impact_stat nor impactStat holds a value,
\* mappedWarehouse.impactStat is a generated string: "<size> sq ft facility"
\* when size_sqft or building_size is present (size_sqft preferred), otherwise
\* "Impact data not available"; the impactStat field report then has
\* mapped=false with an issue and a transformation naming the generated
\* placeholder, and impactStat is not listed in missingFields.  (A key holds a
\* value, or is present, when its value counts in a condition: 0 and "" do
\* not; <size> is the size as toLocaleString writes it.)
C14_GeneratedImpactStat ==
  \A k \in DOMAIN mappingResults :
    LET result == mappingResults[k]
        rawData == result.originalData
        size == IF Truthy(Get(rawData, s_size_sqft)) THEN Get(rawData, s_size_sqft)
                ELSE IF Truthy(Get(rawData, s_building_size))
                     THEN Get(rawData, s_building_size)
                     ELSE Undefined
        placeholder == IF size # Undefined THEN ToLocaleString(size) \o s_SqFtFacility
                       ELSE s_ImpactNotAvailable
        report == Report(result, "impactStat")
    IN (~Truthy(Get(rawData, s_impact_stat)) /\ ~Truthy(Get(rawData, s_impactStat))) =>
         /\ result.mappedWarehouse.impactStat = Str(placeholder)
         /\ ~report.mapped
         /\ Len(report.issues) > 0
         /\ report.transformation.args = <<placeholder>>
         /\ "impactStat" \notin Range(result.missingFields)

\* a record with both size keys holding different values and no impact text
\* was given the placeholder of size_sqft, "500,000 sq ft facility"
C14_Witness ==
  \E k \in DOMAIN mappingResults :
    LET result == mappingResults[k]
        rawData == result.originalData
    IN /\ Get(rawData, s_size_sqft) = Num(5000000)
       /\ Truthy(Get(rawData, s_building_size))
       /\ Get(rawData, s_building_size) # Get(rawData, s_size_sqft)
       /\ result.mappedWarehouse.impactStat = Str(<<"5", "0", "0", ",", "0", "0", "0", " ", "s", "q", " ", "f", "t", " ", "f", "a", "c", "i", "l", "i", "t", "y">>)
       /\ ~Report(result, "impactStat").mapped

\* C15: when no identifier alias yields a usable value, mappedWarehouse.id is
\* still a non-empty synthesized string, the id field report has mapped=false
\* with the issue that a fallback id was generated, and id never appears in
\* missingFields; in every outcome mappedWarehouse.id is populated.
C15_IdAlwaysPopulated ==
  \A k \in DOMAIN mappingResults :
    LET result == mappingResults[k]
        rawData == result.originalData
        id == result.mappedWarehouse.id
        report == Report(result, "id")
    IN /\ FirstAlias(rawData, idCandidates, Truthy) = Undefined =>
            /\ id.type = "string" /\ id.str # <<>>
            /\ ~report.mapped
            /\ report.issues = <<Text("No unique ID found - generated fallback ID", <<>>)>>
       /\ "id" \notin Range(result.missingFields)
       /\ id.type = "string" /\ id.str # <<>>

\* C16: for every source record, mappingStatus has exactly seven entries, one
\* per required field and no field twice, in the fixed order id, name, address,
\* latitude, longitude, status, impactStat, whichever branches (mapped, parse
\* failure, missing, generated) were taken.
C16_SevenReportsInOrder ==
  \A k \in DOMAIN mappingResults :
    LET mappingStatus == mappingResults[k].mappingStatus
    IN [i \in DOMAIN mappingStatus |-> mappingStatus[i].field] =
         <<"id", "name", "address", "latitude", "longitude", "status", "impactStat">>

\* one result with a mapped id, a latitude that failed to parse, a missing
\* name and a generated impactStat
C16_Witness ==
  \E k \in DOMAIN mappingResults :
    LET result == mappingResults[k]
    IN /\ Len(result.mappingStatus) = 7
       /\ Report(result, "id").mapped
       /\ Report(result, "latitude").issues # <<>>
       /\ Report(result, "latitude").issues[1].args # <<>>
       /\ Report(result, "name").issues = <<Text("No warehouse name found", <<>>)>>
       /\ Report(result, "impactStat").transformation # NoText

(***************************************************************************)
(* DataMapper: pasting texts and analysing them                            *)
(***************************************************************************)
\* a record whose fields map, and a record whose fields are missing (id,
\* address, longitude), unparsable (lat) or of an unexpected type (null,
\* array, boolean, nested object)
OrdinaryRecord ==
  JSONObject(<<[key |-> s_id, value |-> Str(<<"a", "b">>)],
               [key |-> s_lat, value |-> Num(338)],
               [key |-> s_status, value |-> Str(s_closed)]>>)
OddRecord ==
  JSONObject(<<[key |-> s_name, value |-> Null],
               [key |-> s_lat, value |-> EmptyArray],
               [key |-> s_status, value |-> Bool(TRUE)],
               [key |-> s_impact_stat, value |-> EmptyObject]>>)

\* the elements of pasted arrays: the two records and null
ElementPool == {OrdinaryRecord, OddRecord, JSONPrimitive(Null)}

\* the values of pasted texts that are not arrays: the two records, null, a
\* number, a string and a boolean
SingleValues ==
  {OrdinaryRecord, OddRecord, JSONPrimitive(Null), JSONPrimitive(Num(420)),
   JSONPrimitive(Str(<<"a", "b">>)), JSONPrimitive(Bool(TRUE))}

\* the texts of the input area
Texts ==
  {BlankText, MalformedText}
  \cup {JSONText(v) : v \in SingleValues}
  \cup UNION { {JSONText(JSONArray(e)) : e \in [1..n -> ElementPool]} : n \in 0..MaxBatch }

AnalyzerInit ==
  /\ sampleData = BlankText
  /\ mappingResults = <<>>
  /\ loading = FALSE
  /\ toast = NoToast
  /\ useGeolocationInit
  /\ IndexAlertInit
  /\ DataExplorerInit
  /\ warehouseData = <<>>
  /\ userLocation = defaultUserLocation
  /\ warehousesWithDistance = <<>>
  /\ nearbyWarehouses = <<>>
  /\ lastQuery = [userLat |-> defaultUserLocation.latitude,
                  userLon |-> defaultUserLocation.longitude,
                  warehouses |-> <<>>, radiusMiles |-> 2, result |-> <<>>]

\* setSampleData(text): typing or pasting into the input area, or loading one
\* of the sample texts
SetSampleData(text) ==
  /\ sampleData' = text
  /\ UNCHANGED <<mappingResults, loading, toast, proxVars, hookVars, alertVars, explorerVars>>

AnalyzerNext ==
  \/ \E text \in Texts : SetSampleData(text)
  \/ \E g \in GeneratedChoices : AnalyzeSampleData(g)

AnalyzerSpec == AnalyzerInit /\ [][AnalyzerNext]_vars

(***************************************************************************)
(* Properties of analyzeSampleData                                         *)
(***************************************************************************)
\* the records of a text: the object it parses to, or the elements of the
\* array it parses to when all of them are objects; <<>> for any other text
InputObjects(text) ==
  IF text.kind # "json" THEN <<>>
  ELSE IF text.parsed.kind = "object" THEN <<text.parsed>>
  ELSE IF /\ text.parsed.kind = "array"
          /\ \A i \in DOMAIN text.parsed.elements : text.parsed.elements[i].kind = "object"
       THEN text.parsed.elements
       ELSE <<>>

\* the text is one object or an array of objects
IsObjectInput(text) ==
  /\ text.kind = "json"
  /\ \/ text.parsed.kind = "object"
     \/ /\ text.parsed.kind = "array"
        /\ \A i \in DOMAIN text.parsed.elements : text.parsed.elements[i].kind = "object"

\* a step of analyzeSampleData that changed the state: the text stays, the
\* results or the notification change
AnalysisStep == sampleData' = sampleData /\ vars' # vars

C19_BareValueIsFatal ==
  [][(/\ AnalysisStep
      /\ sampleData.kind = "json"
      /\ sampleData.parsed.kind = "primitive"
      /\ sampleData.parsed.value.type \in {"number", "string", "boolean"}) =>
       /\ toast'.title = "Error" /\ toast'.variant = "destructive"
       /\ mappingResults' = mappingResults]_vars

IsDefined(v) == v # Undefined

\* what C21 says of one coordinate field, the empty string counted as a string
\* that does not parse when emptyIsMissing is FALSE, and as a missing value when
\* it is TRUE
CoordinateCases(result, field, candidates, notFound, emptyIsMissing) ==
  LET rawData == result.originalData
      alias == FirstAlias(rawData, candidates, IsDefined)
      v == IF alias = Undefined THEN Undefined ELSE Get(rawData, alias.str)
      report == Report(result, field)
      failed == /\ result.mappedWarehouse[field] = Undefined
                /\ ~report.mapped
                /\ field \in Range(result.missingFields)
  IN /\ v.type = "number" =>
          /\ result.mappedWarehouse[field] = v
          /\ report.mapped /\ report.sourceField = alias
          /\ report.transformation = NoText
     /\ (v.type = "string" /\ ~parseFloat(v.str).isNaN) =>
          /\ result.mappedWarehouse[field] = Num(parseFloat(v.str).num)
          /\ report.mapped /\ report.sourceField = alias
          /\ report.transformation = Text("Parse string to number", <<>>)
     /\ (v.type = "string" /\ parseFloat(v.str).isNaN) =>
          IF emptyIsMissing /\ v.str = <<>>
          THEN failed /\ report.issues = <<Text(notFound, <<>>)>>
          ELSE /\ failed
               /\ Len(report.issues) = 1
               /\ report.issues[1].args = <<alias.str, v.str>>

\* C21 as stated: for latitude and longitude, a value that is already a number
\* is used directly with no transformation note; a string that parses as a
\* number is mapped to the parsed number with the transformation "Parse string
\* to number"; a string that does not parse as a number leaves the field
\* unmapped with an issue naming the alias and the value, and the field is
\* listed in missingFields.
C21_CoordinateCases ==
  \A k \in DOMAIN mappingResults :
    /\ CoordinateCases(mappingResults[k], "latitude", latCandidates,
                       "No latitude coordinate found", FALSE)
    /\ CoordinateCases(mappingResults[k], "longitude", lngCandidates,
                       "No longitude coordinate found", FALSE)

\* C21 amended: the same, except that the empty string is treated as a missing
\* coordinate: the field is unmapped and listed in missingFields, with the
\* issue that no coordinate was found instead of one naming alias and value.
C21_CoordinateCasesEmptyIsMissing ==
  \A k \in DOMAIN mappingResults :
    /\ CoordinateCases(mappingResults[k], "latitude", latCandidates,
                       "No latitude coordinate found", TRUE)
    /\ CoordinateCases(mappingResults[k], "longitude", lngCandidates,
                       "No longitude coordinate found", TRUE)

\* a latitude alias holding the text "ab" was analysed: the field is unmapped,
\* the issue names the alias and "ab", and latitude is missing
C21_Witness ==
  \E k \in DOMAIN mappingResults :
    LET result == mappingResults[k]
        alias == FirstAlias(result.originalData, latCandidates, IsDefined)
    IN /\ alias # Undefined
       /\ Get(result.originalData, alias.str) = Str(<<"a", "b">>)
       /\ Report(result, "latitude").issues # <<>>
       /\ Report(result, "latitude").issues[1].args = <<alias.str, <<"a", "b">>>>
       /\ "latitude" \in Range(result.missingFields)

(***************************************************************************)
(* DataMapper: records of address components                               *)
(***************************************************************************)
\* the address keys, listed (and so inserted into the records) in the reverse
\* of the order in which the mapper joins them
AddressKeyPool ==
  <<s_zipcode, s_zip_code, s_state, s_city, s_address, s_street_address>>

\* component values: null, the empty string, two texts and the number 92508
AddressValuePool ==
  {Null, Str(<<>>), Str(<<"a", "b">>), Str(<<"c", "d">>), Num(925080)}

AddressInit ==
  /\ sampleData \in {JSONText(JSONObject(r)) :
                       r \in RecordsOver(AddressKeyPool, AddressValuePool)}
  /\ mappingResults = <<>>
  /\ loading = FALSE
  /\ toast = NoToast
  /\ useGeolocationInit
  /\ IndexAlertInit
  /\ DataExplorerInit
  /\ warehouseData = <<>>
  /\ userLocation = defaultUserLocation
  /\ warehousesWithDistance = <<>>
  /\ nearbyWarehouses = <<>>
  /\ lastQuery = [userLat |-> defaultUserLocation.latitude,
                  userLon |-> defaultUserLocation.longitude,
                  warehouses |-> <<>>, radiusMiles |-> 2, result |-> <<>>]

AddressSpec == AddressInit /\ [][MapperNext]_vars

\* the texts separated by ", "
RECURSIVE CommaSeparated(_)
CommaSeparated(texts) ==
  IF texts = <<>> THEN <<>>
  ELSE Head(texts)
       \o (IF Tail(texts) = <<>> THEN <<>> ELSE <<",", " ">> \o CommaSeparated(Tail(texts)))

\* the components of the address in the fixed order, each the first of its
\* keys that holds a value (a value that counts in a condition: not null, not
\* "", not 0); Undefined where neither key holds one
AddressComponents(rawData) ==
  LET firstOf(a, b) == IF Truthy(Get(rawData, a)) THEN Get(rawData, a)
                       ELSE IF Truthy(Get(rawData, b)) THEN Get(rawData, b)
                       ELSE Undefined
  IN <<firstOf(s_street_address, s_address), firstOf(s_city, s_city),
       firstOf(s_state, s_state), firstOf(s_zip_code, s_zipcode)>>

\* C22: the mapped address is the present components joined with ", " in the
\* fixed order street (street_address, else address), city, state, zip
\* (zip_code, else zipcode), each included only if present; the address is
\* mapped if and only if at least one component is present, otherwise it is
\* unmapped and listed in missingFields.
C22_AddressFromComponents ==
  \A k \in DOMAIN mappingResults :
    LET result == mappingResults[k]
        present == SelectSeq(AddressComponents(result.originalData), IsDefined)
        texts == [i \in DOMAIN present |-> String(present[i])]
        report == Report(result, "address")
    IN /\ report.mapped <=> present # <<>>
       /\ present # <<>> => result.mappedWarehouse.address = Str(CommaSeparated(texts))
       /\ present = <<>> =>
            /\ result.mappedWarehouse.address = Undefined
            /\ "address" \in Range(result.missingFields)

\* a record whose zip was inserted before its street: the address is the
\* street first, then the zip
C22_Witness ==
  \E k \in DOMAIN mappingResults :
    LET result == mappingResults[k]
        rawData == result.originalData
    IN /\ ObjectKeys(rawData) = <<s_zip_code, s_street_address>>
       /\ Get(rawData, s_street_address) = Str(<<"a", "b">>)
       /\ Get(rawData, s_zip_code) = Num(925080)
       /\ result.mappedWarehouse.address =
            Str(<<"a", "b", ",", " ", "9", "2", "5", "0", "8">>)

(***************************************************************************)
(* Purity of the mapper                                                    *)
(***************************************************************************)
\* two results agree in everything the mapper computed
SameOutput(r1, r2) ==
  /\ r1.mappedWarehouse = r2.mappedWarehouse
  /\ r1.mappingStatus = r2.mappingStatus
  /\ r1.missingFields = r2.missingFields
  /\ r1.unmappedFields = r2.unmappedFields

\* two results agree in everything but, possibly, a generated fallback id
SameOutputButGeneratedId(r1, r2) ==
  /\ [r1.mappedWarehouse EXCEPT !.id = Undefined]
       = [r2.mappedWarehouse EXCEPT !.id = Undefined]
  /\ Report(r1, "id").mapped => r1.mappedWarehouse.id = r2.mappedWarehouse.id
  /\ r1.mappingStatus = r2.mappingStatus
  /\ r1.missingFields = r2.missingFields
  /\ r1.unmappedFields = r2.unmappedFields

\* after an analysis that stored results: every result carries its element of
\* the pasted value unmodified, and any two results of the same source record,
\* in the new batch or one in the batch before and one in the new batch, are
\* related by same
PureUpTo(same(_, _)) ==
  (AnalysisStep /\ toast'.title = "Analysis Complete") =>
    LET dataArray == DataArray(sampleData.parsed)
    IN /\ \A i \in DOMAIN mappingResults' :
            mappingResults'[i].originalData = dataArray[i]
       /\ \A i, j \in DOMAIN mappingResults' :
            mappingResults'[i].originalData = mappingResults'[j].originalData
              => same(mappingResults'[i], mappingResults'[j])
       /\ \A i \in DOMAIN mappingResults : \A j \in DOMAIN mappingResults' :
            mappingResults[i].originalData = mappingResults'[j].originalData
              => same(mappingResults[i], mappingResults'[j])

AnyLists ==
  UNION { { [i \in 1..n |-> Facility(i, ps[i])] : ps \in [1..n -> Points \cup InvalidPoints] }
          : n \in 0..MaxWarehouses }

AnyPointInit ==
  /\ warehouseData \in AnyLists
  /\ userLocation \in Points \cup InvalidPoints
  /\ warehousesWithDistance = <<>>
  /\ nearbyWarehouses = <<>>
  /\ lastQuery = [userLat |-> defaultUserLocation.latitude,
                  userLon |-> defaultUserLocation.longitude,
                  warehouses |-> <<>>, radiusMiles |-> 2, result |-> <<>>]
  /\ sampleData = BlankText
  /\ mappingResults = NoRecord
  /\ loading = FALSE
  /\ toast = NoToast
  /\ useGeolocationInit
  /\ IndexAlertInit
  /\ DataExplorerInit

AnyPointNext == \E r \in Radii : QueryBase(r)

AnyPointSpec == AnyPointInit /\ [][AnyPointNext]_vars

\* the coordinates are not finite or out of range
InvalidCoordinates(latitude, longitude) ==
  \/ latitude = NaN \/ longitude = NaN
  \/ latitude < -90 \/ latitude > 90
  \/ longitude < -180 \/ longitude > 180

\* C24: the proximity engine treats invalid coordinates (non-finite, or
\* latitude outside [-90, 90], longitude outside [-180, 180]) in the reference
\* point or in a facility as a validation error; it never silently returns a
\* result built from an incorrect distance and never silently drops the
\* facility.
C24_InvalidCoordinatesRejected ==
  (\/ InvalidCoordinates(lastQuery.userLat, lastQuery.userLon)
   \/ \E i \in DOMAIN lastQuery.warehouses :
        InvalidCoordinates(lastQuery.warehouses[i].latitude,
                           lastQuery.warehouses[i].longitude))
  => /\ getWarehousesWithinRadiusThrows(lastQuery.userLat, lastQuery.userLon,
                                        lastQuery.warehouses, lastQuery.radiusMiles)
     /\ lastQuery.result = <<>>

(***************************************************************************)
(* Algebraic properties of the proximity engine                            *)
(***************************************************************************)
\* the positions of the state: the reference point, the reference of the last
\* query, and the facilities
StatePositions ==
  {<<userLocation.latitude, userLocation.longitude>>,
   <<lastQuery.userLat, lastQuery.userLon>>}
  \cup {<<warehouseData[i].latitude, warehouseData[i].longitude>> : i \in DOMAIN warehouseData}
  \cup {<<lastQuery.warehouses[i].latitude, lastQuery.warehouses[i].longitude>> :
          i \in DOMAIN lastQuery.warehouses}

\* C25: calculateDistance(lat, lon, lat, lon) returns 0 for every point, so a
\* facility located exactly at the reference point is returned by
\* getWarehousesWithinRadius for every radius >= 0 with distanceFromUser 0.
C25_ZeroDistanceToItself ==
  /\ \A p \in StatePositions : calculateDistance(p[1], p[2], p[1], p[2]) = 0
  /\ \A i \in DOMAIN lastQuery.warehouses :
       LET w == lastQuery.warehouses[i]
       IN (w.latitude = lastQuery.userLat /\ w.longitude = lastQuery.userLon) =>
            \E j \in DOMAIN lastQuery.result :
              /\ lastQuery.result[j].id = w.id
              /\ lastQuery.result[j].distanceFromUser = 0

\* a query with radius 0 over a list holding a facility at the reference point
\* and a facility elsewhere returned the first with distance 0
C25_Witness ==
  /\ lastQuery.radiusMiles = 0
  /\ Len(lastQuery.warehouses) >= 2
  /\ Len(lastQuery.result) >= 1
  /\ \A j \in DOMAIN lastQuery.result :
       /\ lastQuery.result[j].distanceFromUser = 0
       /\ lastQuery.result[j].latitude = lastQuery.userLat
       /\ lastQuery.result[j].longitude = lastQuery.userLon

\* C26: calculateDistance is symmetric: for all points a and b,
\* calculateDistance(a.lat, a.lon, b.lat, b.lon) equals
\* calculateDistance(b.lat, b.lon, a.lat, a.lon).
C26_DistanceIsSymmetric ==
  \A a, b \in StatePositions :
    calculateDistance(a[1], a[2], b[1], b[2]) = calculateDistance(b[1], b[2], a[1], a[2])

\* a query returned a facility on another latitude and longitude than the
\* reference point, with the distance that the facility has to the reference
C26_Witness ==
  \E j \in DOMAIN lastQuery.result :
    LET w == lastQuery.result[j]
    IN /\ w.latitude # lastQuery.userLat /\ w.longitude # lastQuery.userLon
       /\ w.distanceFromUser > 0
       /\ w.distanceFromUser =
            calculateDistance(w.latitude, w.longitude, lastQuery.userLat, lastQuery.userLon)

\* the index of the facility with this id in the list
IndexOfId(ws, id) == CHOOSE i \in DOMAIN ws : ws[i].id = id

\* C27: when two or more facilities within the radius have identical computed
\* distance, getWarehousesWithinRadius returns them in the same relative order
\* as they had in the input collection.
C27_TiesKeepInputOrder ==
  \A i, j \in DOMAIN lastQuery.result :
    (i < j /\ lastQuery.result[i].distanceFromUser = lastQuery.result[j].distanceFromUser)
      => IndexOfId(lastQuery.warehouses, lastQuery.result[i].id)
           < IndexOfId(lastQuery.warehouses, lastQuery.result[j].id)

\* a query returned two facilities at different positions with the same
\* distance, behind a nearer facility that came last in the input
C27_Witness ==
  \E i, j \in DOMAIN lastQuery.result :
    /\ i < j
    /\ lastQuery.result[i].distanceFromUser = lastQuery.result[j].distanceFromUser
    /\ lastQuery.result[i].longitude # lastQuery.result[j].longitude
    /\ lastQuery.result[1].distanceFromUser < lastQuery.result[i].distanceFromUser
    /\ lastQuery.warehouses[Len(lastQuery.warehouses)].id = lastQuery.result[1].id

(***************************************************************************)
(* src/src/hooks/useGeolocation.ts, with the Index variant that reads the  *)
(* location from the hook (Index.tsx:156-249).  The watch reports          *)
(* positions on the grid of Points; an error carries its code and message. *)
(***************************************************************************)
PERMISSION_DENIED == 1
POSITION_UNAVAILABLE == 2
TIMEOUT == 3

ErrorMessage(m) == [type |-> "string", value |-> m]

\* GeolocationPosition objects the watch can report
Positions == { [coords |-> [latitude |-> p.latitude, longitude |-> p.longitude]] : p \in Points }

\* GeolocationPositionError objects the watch can report
PositionErrors ==
  { [code |-> c, message |-> ErrorMessage(m), PERMISSION_DENIED |-> PERMISSION_DENIED] :
      c \in {PERMISSION_DENIED, POSITION_UNAVAILABLE, TIMEOUT},
      m \in {"", "User denied Geolocation"} }

NoPosition == [coords |-> [latitude |-> NaN, longitude |-> NaN]]
NoPositionError == [code |-> 0, message |-> ErrorMessage(""), PERMISSION_DENIED |-> PERMISSION_DENIED]

Callback(kind, position, error) == [kind |-> kind, position |-> position, error |-> error]

\* the state set when navigator.geolocation is missing
UnsupportedState ==
  GeolocationState(defaultUserLocation, FALSE,
                   ErrorMessage("Geolocation not supported"), FALSE)

\* the state set by the success callback
SuccessStateKeepingFlags(position) ==
  [state EXCEPT !.location = [latitude |-> position.coords.latitude,
                              longitude |-> position.coords.longitude],
                !.loading = FALSE]

SuccessState(position) ==
  GeolocationState([latitude |-> position.coords.latitude,
                    longitude |-> position.coords.longitude],
                   FALSE, NoError, FALSE)

\* the state set by the error callback
ErrorState(error) ==
  GeolocationState(defaultUserLocation, FALSE, error.message,
                   error.code = error.PERMISSION_DENIED)

\* Index re-renders with userLocation = state.location; its effect with the
\* dependency [userLocation] runs when the location is not null.  A re-run for
\* an unchanged location computes the same lists again.
LocationEffect(loc) ==
  IF loc = NoLocation
  THEN /\ userLocation' = loc
       /\ UNCHANGED <<warehousesWithDistance, nearbyWarehouses, warehouseData>>
  ELSE LET e == EffectResult(loc)
       IN /\ userLocation' = loc
          /\ warehousesWithDistance' = e.warehousesWithDist
          /\ nearbyWarehouses' = e.nearby
          /\ warehouseData' = e.warehouseData

GeoInit ==
  /\ warehouseData \in BaseLists
  /\ userLocation = NoLocation
  /\ warehousesWithDistance = <<>>
  /\ nearbyWarehouses = <<>>
  /\ lastQuery = [userLat |-> defaultUserLocation.latitude,
                  userLon |-> defaultUserLocation.longitude,
                  warehouses |-> <<>>, radiusMiles |-> 2, result |-> <<>>]
  /\ sampleData = BlankText
  /\ mappingResults = NoRecord
  /\ loading = FALSE
  /\ toast = NoToast
  /\ state = GeolocationState(NoLocation, TRUE, NoError, FALSE)
  /\ geolocation \in BOOLEAN
  /\ watchId = "none"
  /\ lastCallback = NoCallback
  /\ IndexAlertInit
  /\ DataExplorerInit

\* the effect of the hook at mount: the fallback state without
\* navigator.geolocation, watchPosition otherwise
UseGeolocationEffect ==
  /\ watchId = "none"
  /\ state.loading
  /\ IF ~geolocation
     THEN /\ state' = UnsupportedState
          /\ LocationEffect(UnsupportedState.location)
          /\ UNCHANGED watchId
     ELSE /\ watchId' = "watching"
          /\ UNCHANGED <<state, userLocation, warehousesWithDistance,
                         nearbyWarehouses, warehouseData>>
  /\ UNCHANGED <<geolocation, lastCallback, lastQuery, mapperVars, alertVars, explorerVars>>

\* the success callback of the watch
WatchSuccess(position) ==
  /\ watchId = "watching"
  /\ state' = SuccessState(position)
  /\ lastCallback' = Callback("success", position, NoPositionError)
  /\ LocationEffect(SuccessState(position).location)
  /\ UNCHANGED <<geolocation, watchId, lastQuery, mapperVars, alertVars, explorerVars>>

\* the error callback of the watch
WatchError(error) ==
  /\ watchId = "watching"
  /\ state' = ErrorState(error)
  /\ lastCallback' = Callback("error", NoPosition, error)
  /\ LocationEffect(ErrorState(error).location)
  /\ UNCHANGED <<geolocation, watchId, lastQuery, mapperVars, alertVars, explorerVars>>

\* the cleanup of the effect at unmount: clearWatch, no callback afterwards
UseGeolocationCleanup ==
  /\ watchId = "watching"
  /\ watchId' = "cleared"
  /\ UNCHANGED <<state, geolocation, lastCallback, proxVars, mapperVars, alertVars, explorerVars>>

GeoNext ==
  \/ UseGeolocationEffect
  \/ \E position \in Positions : WatchSuccess(position)
  \/ \E error \in PositionErrors : WatchError(error)
  \/ UseGeolocationCleanup

GeoSpec == GeoInit /\ [][GeoNext]_vars

\* C28: once loading is false the location is never null: it holds the
\* coordinates of the latest success callback, or the default location when
\* geolocation is unsupported or the latest callback was an error; and
\* permissionDenied is true only when the latest callback was an error with
\* the code PERMISSION_DENIED.
C28_LocationAfterLoading ==
  ~state.loading =>
    /\ state.location # NoLocation
    /\ lastCallback.kind = "success" =>
         state.location = [latitude |-> lastCallback.position.coords.latitude,
                           longitude |-> lastCallback.position.coords.longitude]
    /\ (~geolocation \/ lastCallback.kind = "error") =>
         state.location = defaultUserLocation
    /\ state.permissionDenied =>
         /\ lastCallback.kind = "error"
         /\ lastCallback.error.code = PERMISSION_DENIED

\* a success callback away from the default location: the hook holds the
\* reported position and Index found a facility near it
C28_Witness ==
  /\ ~state.loading
  /\ lastCallback.kind = "success"
  /\ state.location # defaultUserLocation
  /\ userLocation = state.location
  /\ ~state.permissionDenied
  /\ Len(nearbyWarehouses) > 0
  /\ nearbyWarehouses[1].latitude = state.location.latitude
  /\ nearbyWarehouses[1].longitude = state.location.longitude

(***************************************************************************)
(* src/src/pages/Index.tsx, the proximity alert of the fixed-location      *)
(* variant (lines 15-144).  A handler is modelled with the render it       *)
(* causes and the run of the alert effect after that render.               *)
(***************************************************************************)
\* ProximityAlert renders only when isVisible and closestWarehouse are set
AlertVisible(isVisible, nearby) == isVisible /\ Len(nearby) > 0

\* the alert effect, run in a render with these values: it schedules a
\* one-second timer and cancels none
AlertEffect(loaded, nearby, seen, pending) ==
  IF loaded /\ Len(nearby) > 0 /\ ~seen THEN pending + 1 ELSE pending

\* the dependencies [mapLoaded, nearbyWarehouses.length, showProximityAlert]
AlertDeps(loaded, nearby, isVisible) == <<loaded, Len(nearby), isVisible>>

\* pending timers after the render that follows a handler: the effect runs
\* when a dependency differs from the previous render
TimersAfterRender(pending) ==
  IF AlertDeps(mapLoaded', nearbyWarehouses', showProximityAlert')
       # AlertDeps(mapLoaded, nearbyWarehouses, showProximityAlert)
  THEN AlertEffect(mapLoaded', nearbyWarehouses', hasSeenProximityAlert', pending)
  ELSE pending

\* mount: the alert effect and the distance effect run after the first
\* render, and the lists the distance effect stores cause a second render
IndexMount ==
  LET e == EffectResult(userLocation)
  IN /\ ~mounted
     /\ mounted' = TRUE
     /\ warehousesWithDistance' = e.warehousesWithDist
     /\ nearbyWarehouses' = e.nearby
     /\ warehouseData' = e.warehouseData
     /\ UNCHANGED <<userLocation, lastQuery, mapLoaded, hasSeenProximityAlert,
                    showProximityAlert, mapperVars, hookVars, explorerVars>>
     /\ timers' = TimersAfterRender(
                    AlertEffect(mapLoaded, nearbyWarehouses, hasSeenProximityAlert, timers))

\* onMapLoad of MapView
handleMapLoad ==
  /\ mounted
  /\ mapLoaded' = TRUE
  /\ UNCHANGED <<mounted, hasSeenProximityAlert, showProximityAlert, proxVars,
                 mapperVars, hookVars, explorerVars>>
  /\ timers' = TimersAfterRender(timers)

\* a pending timer of the alert effect fires: setShowProximityAlert(true)
AlertTimerFires ==
  /\ timers > 0
  /\ showProximityAlert' = TRUE
  /\ UNCHANGED <<mounted, mapLoaded, hasSeenProximityAlert, proxVars,
                 mapperVars, hookVars, explorerVars>>
  /\ timers' = TimersAfterRender(timers - 1)

\* onClose of the rendered ProximityAlert
handleCloseAlert ==
  /\ AlertVisible(showProximityAlert, nearbyWarehouses)
  /\ showProximityAlert' = FALSE
  /\ hasSeenProximityAlert' = TRUE
  /\ UNCHANGED <<mounted, mapLoaded, proxVars, mapperVars, hookVars, explorerVars>>
  /\ timers' = TimersAfterRender(timers)

AlertNext ==
  \/ IndexMount
  \/ handleMapLoad
  \/ AlertTimerFires
  \/ handleCloseAlert

AlertSpec == Init /\ [][AlertNext]_vars

\* C29: the proximity alert becomes visible only after the map has loaded
\* and with a warehouse within 2 miles, and never again once the user has
\* closed it (hasSeenProximityAlert), whenever the close happens relative to
\* the pending timers.
C29_AlertOpensAtMostOnce ==
  [][ (/\ ~AlertVisible(showProximityAlert, nearbyWarehouses)
       /\ AlertVisible(showProximityAlert', nearbyWarehouses'))
      => (/\ mapLoaded'
          /\ Len(nearbyWarehouses') > 0
          /\ \A i \in 1..Len(nearbyWarehouses') :
               LessOrEqual(nearbyWarehouses'[i].distanceFromUser, 2)
          /\ ~hasSeenProximityAlert) ]_vars

(***************************************************************************)
(* src/src/components/DataExplorer.tsx.  A URL text is a sequence of       *)
(* pieces: " " is white space and any other piece a run of other           *)
(* characters.  A makeRequest call is in flight from its setLoading(true)  *)
(* until its fetch (and the reading of the body) settles; its catch or     *)
(* success branch and its finally block run in that settling step.  The    *)
(* timestamp of an entry is left out.                                      *)
(***************************************************************************)
knownEndpoints ==
  << <<"https://radicalresearch.shinyapps.io/WarehouseCITY/">>,
     <<"https://radicalresearch.shinyapps.io/WarehouseCITY/data">>,
     <<"https://radicalresearch.shinyapps.io/WarehouseCITY/api">>,
     <<"https://radicalresearch.shinyapps.io/WarehouseCITY/session">> >>

\* texts of the URL field
UrlTexts == { <<>>, <<" ">>, <<" ", "https://example.org/data", " ">> }

RECURSIVE TrimEnd(_)
TrimEnd(s) ==
  IF s # <<>> /\ s[Len(s)] = " " THEN TrimEnd(SubSeq(s, 1, Len(s) - 1)) ELSE s

Trim(s) == TrimEnd(TrimStart(s))

\* what a fetch can do: a response with a status and a body, or a thrown
\* Error (a rejected fetch, an unreadable body)
FetchOutcomes ==
  { [kind |-> "response", status |-> 200, data |-> [type |-> "object", kind |-> "json"],
     message |-> ""],
    [kind |-> "throw", status |-> 0, data |-> [type |-> "null"],
     message |-> "Failed to fetch"] }

\* a makeRequest call: its url, and its position in knownEndpoints when
\* exploreKnownEndpoints made it (0 for exploreCustomUrl)
Call(url, position) == [url |-> url, position |-> position]

ApiResponse(url, status, data, error) ==
  [url |-> url, status |-> status, data |-> data, error |-> error]

\* the entry makeRequest prepends for an outcome of its fetch
ResponseEntry(url, outcome) ==
  IF outcome.kind = "response"
  THEN ApiResponse(url, outcome.status, outcome.data, [type |-> "undefined"])
  ELSE ApiResponse(url, 0, [type |-> "null"], ErrorMessage(outcome.message))

\* the notification of makeRequest for an outcome of its fetch
ResponseToast(url, outcome) ==
  IF outcome.kind = "response"
  THEN Toast("Request Completed",
             Text("${response.status} response from ${url}",
                  <<ToString(outcome.status)>> \o url), "")
  ELSE Toast("Request Failed",
             Text("Error fetching ${url}: ${error}", url \o <<outcome.message>>),
             "destructive")

Calls == BagCardinality(inFlight) + BagCardinality(delays)

\* the synchronous part of makeRequest: setLoading(true), then the fetch
MakeRequest(url, position) ==
  /\ explorerLoading' = TRUE
  /\ inFlight' = inFlight (+) SetToBag({Call(url, position)})

\* the Explore Known Endpoints button (disabled while loading): the loop
\* makes its first request
exploreKnownEndpoints ==
  /\ ~explorerLoading
  /\ Calls < MaxCalls
  /\ MakeRequest(knownEndpoints[1], 1)
  /\ UNCHANGED <<responses, customUrl, delays, toast, sampleData, mappingResults,
                 loading, proxVars, hookVars, alertVars>>

\* exploreCustomUrl
exploreCustomUrl ==
  IF Trim(customUrl) # <<>>
  THEN /\ Calls < MaxCalls
       /\ MakeRequest(Trim(customUrl), 0)
       /\ UNCHANGED <<responses, customUrl, delays, toast, sampleData, mappingResults,
                      loading, proxVars, hookVars, alertVars>>
  ELSE UNCHANGED vars

\* the Test URL button (disabled while loading or with a blank URL)
TestUrlClick ==
  /\ ~(explorerLoading \/ Trim(customUrl) = <<>>)
  /\ exploreCustomUrl

\* onKeyDown of the URL field, which is never disabled: Enter calls
\* exploreCustomUrl
UrlKeyDown(key) ==
  IF key = "Enter" THEN exploreCustomUrl ELSE UNCHANGED vars

\* onChange of the URL field
setCustomUrl(text) ==
  /\ customUrl' = text
  /\ UNCHANGED <<responses, explorerLoading, inFlight, delays, toast, sampleData,
                 mappingResults, loading, proxVars, hookVars, alertVars>>

\* the Clear Results button
clearResults ==
  /\ responses' = <<>>
  /\ UNCHANGED <<explorerLoading, customUrl, inFlight, delays, toast, sampleData,
                 mappingResults, loading, proxVars, hookVars, alertVars>>

\* the fetch of a call settles: the entry is prepended, the notification
\* shown, and the finally block sets loading to false; a call of the
\* exploreKnownEndpoints loop then enters the loop's pause
FetchSettles(call, outcome) ==
  /\ BagIn(call, inFlight)
  /\ Len(responses) < MaxResponses
  /\ inFlight' = inFlight (-) SetToBag({call})
  /\ responses' = <<ResponseEntry(call.url, outcome)>> \o responses
  /\ toast' = ResponseToast(call.url, outcome)
  /\ explorerLoading' = FALSE
  /\ delays' = IF call.position > 0 THEN delays (+) SetToBag({call.position}) ELSE delays
  /\ UNCHANGED <<customUrl, sampleData, mappingResults, loading, proxVars,
                 hookVars, alertVars>>

\* the 500 ms pause of an exploreKnownEndpoints loop ends: the next
\* endpoint is requested, or the loop is over
PauseEnds(position) ==
  /\ BagIn(position, delays)
  /\ delays' = delays (-) SetToBag({position})
  /\ IF position < Len(knownEndpoints)
     THEN MakeRequest(knownEndpoints[position + 1], position + 1)
     ELSE UNCHANGED <<explorerLoading, inFlight>>
  /\ UNCHANGED <<responses, customUrl, toast, sampleData, mappingResults,
                 loading, proxVars, hookVars, alertVars>>

ExplorerNext ==
  \/ exploreKnownEndpoints
  \/ TestUrlClick
  \/ \E key \in {"Enter", "a"} : UrlKeyDown(key)
  \/ \E text \in UrlTexts : setCustomUrl(text)
  \/ clearResults
  \/ \E call \in BagToSet(inFlight), outcome \in FetchOutcomes : FetchSettles(call, outcome)
  \/ \E position \in BagToSet(delays) : PauseEnds(position)

\* the page with DataExplorer at construction; the other components stay as
\* constructed, with an empty facility list
ExplorerInit ==
  /\ Init
  /\ warehouseData = <<>>

ExplorerSpec == ExplorerInit /\ [][ExplorerNext]_vars

\* a step in which a makeRequest call ends prepends exactly one entry (status
\* 0, data null and an error message after a failure) and sets loading false
CompletionPrependsOneEntry ==
  BagCardinality(inFlight') < BagCardinality(inFlight) =>
    /\ Len(responses') = Len(responses) + 1
    /\ Tail(responses') = responses
    /\ toast'.title = "Request Failed" =>
         /\ Head(responses').status = 0
         /\ Head(responses').data = [type |-> "null"]
         /\ Head(responses').error.type = "string"
    /\ ~explorerLoading'

\* C30: the loading flag is true whenever at least one makeRequest call is
\* in flight, for every interleaving of requests started by the buttons, the
\* Enter key and exploreKnownEndpoints; and every call, whether its fetch
\* succeeds or throws, prepends exactly one entry and ends by setting loading
\* to false.
C30_LoadingWhileInFlight ==
  [][ /\ BagCardinality(inFlight') > 0 => explorerLoading'
      /\ CompletionPrependsOneEntry ]_vars

====
